---- MODULE Spec2Model ----
(***************************************************************************)
(* A model of the ai-prompter library (src/src/index.ts): the block        *)
(* composer MessageBuilder and the turn sequencer PromptBuilder.           *)
(*                                                                         *)
(* A JavaScript string is a sequence of atoms.  The atoms "{", "}" and the *)
(* line break NL are the characters the code looks at (the template        *)
(* pattern and split("\n")); every other atom is an opaque run of          *)
(* characters that holds none of the three.                                *)
(***************************************************************************)
EXTENDS Integers, Sequences, FiniteSets, TLC

NL == "\n"

(***************************************************************************)
(* Bounds of the model.                                                    *)
(***************************************************************************)
MaxSize == 6      \* composers on the heap plus the parts they hold
MaxTurns == 3     \* turns of the sequencer

(***************************************************************************)
(* JavaScript values.  One record shape for all of them: t is the type     *)
(* tag, s the text of a string, n the number (or the truth value, or the   *)
(* index of a callback), ref the heap index of a composer.                 *)
(***************************************************************************)
JsVal(t, s, n, ref) == [t |-> t, s |-> s, n |-> n, ref |-> ref]
Str(s) == JsVal("str", s, 0, 0)
Num(n) == JsVal("num", <<>>, n, 0)
Bool(b) == JsVal("bool", <<>>, IF b THEN 1 ELSE 0, 0)
Undefined == JsVal("undef", <<>>, 0, 0)
Null == JsVal("null", <<>>, 0, 0)
MbRef(i) == JsVal("mb", <<>>, 0, i)
Fn(i) == JsVal("fn", <<>>, i, 0)
\* A plain object, held as the text JSON.stringify gives for it
Obj(json) == JsVal("obj", json, 0, 0)

Digits == <<"0", "1", "2", "3", "4", "5", "6", "7", "8", "9">>

\* Number.prototype.toString of a non-negative integer
RECURSIVE NatText(_)
NatText(n) ==
  IF n < 10 THEN <<Digits[n + 1]>>
  ELSE NatText(n \div 10) \o <<Digits[(n % 10) + 1]>>

NumText(n) == IF n < 0 THEN <<"-">> \o NatText(-n) ELSE NatText(n)

\* Array.prototype.join("\n")
RECURSIVE JoinNL(_)
JoinNL(segs) ==
  IF segs = <<>> THEN <<>>
  ELSE IF Len(segs) = 1 THEN segs[1]
  ELSE segs[1] \o <<NL>> \o JoinNL(Tail(segs))

\* String.prototype.split("\n"): never empty, "" splits to [""]
RECURSIVE SplitNL(_)
SplitNL(s) ==
  IF \A i \in 1..Len(s) : s[i] # NL THEN <<s>>
  ELSE LET i == CHOOSE i \in 1..Len(s) : s[i] = NL /\ \A j \in 1..(i - 1) : s[j] # NL
       IN <<SubSeq(s, 1, i - 1)>> \o SplitNL(SubSeq(s, i + 1, Len(s)))

(***************************************************************************)
(* Argument mappings: functions from a key (a text) to a value.            *)
(***************************************************************************)
NoArgs == [k \in {} |-> Undefined]

\* { ...a, ...b }
Spread(a, b) ==
  [k \in (DOMAIN a) \cup (DOMAIN b) |-> IF k \in DOMAIN b THEN b[k] ELSE a[k]]

\* Properties every object literal inherits from Object.prototype
ProtoKeys == {<<"constructor">>, <<"toString">>}

\* p1 in args
InArgs(p1, args) == p1 \in DOMAIN args \/ p1 \in ProtoKeys

\* args[p1], when p1 in args: an inherited one is a native function
Lookup(args, p1) ==
  IF p1 \in DOMAIN args THEN args[p1]
  ELSE Str(<<"function ", IF p1 = <<"constructor">> THEN "Object" ELSE p1[1],
             "() ", "{", " [native code] ", "}">>)

\* `${_stringifyValue(val)}` for the values that are not objects, for null
\* and for plain objects
ToText(v) ==
  CASE v.t = "str" -> v.s
    [] v.t = "num" -> NumText(v.n)
    [] v.t = "bool" -> IF v.n = 1 THEN <<"true">> ELSE <<"false">>
    [] v.t = "undef" -> <<"undefined">>
    [] v.t = "null" -> <<"null">>
    [] v.t = "obj" -> v.s
    [] OTHER -> <<"[object]">>

\* `${val}`: a plain object and a composer have Object.prototype.toString
StringOf(v) ==
  IF v.t \in {"obj", "mb"} THEN <<"[object Object]">> ELSE ToText(v)

\* The length of the name when a {{name}} placeholder starts t, else 0:
\* the pattern \{\{([^}]+)\}\}
MatchAt(t) ==
  IF Len(t) >= 5 /\ t[1] = "{" /\ t[2] = "{" /\ \E j \in 3..Len(t) : t[j] = "}"
  THEN LET j == CHOOSE j \in 3..Len(t) : t[j] = "}" /\ \A i \in 3..(j - 1) : t[i] # "}"
       IN IF j >= 4 /\ j + 1 <= Len(t) /\ t[j + 1] = "}" THEN j - 3 ELSE 0
  ELSE 0

RECURSIVE BuildTemplate(_, _)
BuildTemplate(t, args) ==
  IF t = <<>> THEN <<>>
  ELSE LET m == MatchAt(t)
       IN IF m > 0
          THEN LET p1 == SubSeq(t, 3, m + 2)
               IN (IF InArgs(p1, args) THEN ToText(Lookup(args, p1))
                   ELSE SubSeq(t, 1, m + 4))
                  \o BuildTemplate(SubSeq(t, m + 5, Len(t)), args)
          ELSE <<t[1]>> \o BuildTemplate(Tail(t), args)

\* The names console.warn is called with while the template is built, in
\* the order of the calls
RECURSIVE TemplateWarnings(_, _)
TemplateWarnings(t, args) ==
  IF t = <<>> THEN <<>>
  ELSE LET m == MatchAt(t)
       IN IF m > 0
          THEN LET p1 == SubSeq(t, 3, m + 2)
               IN (IF InArgs(p1, args) THEN <<>> ELSE <<p1>>)
                  \o TemplateWarnings(SubSeq(t, m + 5, Len(t)), args)
          ELSE TemplateWarnings(Tail(t), args)

(***************************************************************************)
(* The state.                                                              *)
(*   globalIndent  MessageBuilder.indent, the process-wide default         *)
(*   mbs           the composers made so far; a composer is named by its   *)
(*                 index.  args is the value of its argument object and    *)
(*                 agroup names that object: composers (and the sequencer, *)
(*                 holder 0) with the same agroup hold the same object;    *)
(*                 agroup is the smallest holder of the object             *)
(*   pbArgs, turns PromptBuilder.args and PromptBuilder._messages          *)
(*   conts         the asynchronous callbacks that were called and have    *)
(*                 not finished, or whose caller has not continued         *)
(*   result        what the last call returned or threw                    *)
(***************************************************************************)
VARIABLES globalIndent, mbs, pbArgs, turns, conts, result

vars == <<globalIndent, mbs, pbArgs, turns, conts, result>>

MbIds == 1..Len(mbs)

\* op: the method called ("addAsync settled": the rest of addAsync after
\* its await, and so on); target, key, arg, role, options, withIntent,
\* filter: its receiver and arguments; child: the composer it handed to the callback;
\* heap: the composers as they were when it was called or continued; err: the message of the error it threw ("" when
\* it returned); str, records, context: what it returned; warn: the names
\* of the template variables it warned about on the console; seen: what
\* the filter it was given was called with, call by call
NoResult ==
  [op |-> "none", target |-> 0, key |-> <<>>, arg |-> Undefined, child |-> 0, role |-> "",
   withIntent |-> FALSE, filter |-> "", heap |-> <<>>, err |-> "", str |-> <<>>, records |-> <<>>,
   context |-> Undefined, warn |-> <<>>, seen |-> <<>>,
   options |-> [placeholder |-> Undefined, extra |-> NoArgs]]

\* new MessageBuilder(customIndent, args), args an object of its own
NewBuilder(ci, a, id) == [customIndent |-> ci, args |-> a, agroup |-> id, parts |-> <<>>]

\* msg(undefined, args): new MessageBuilder(null, args) holding the caller's object
MsgChild(a, group) == [customIndent |-> Null, args |-> a, agroup |-> group, parts |-> <<>>]

\* private static indent = "   "
DefaultIndent == <<" ", " ", " ">>

\* An indent getter that reads the default the class was loaded with
LoadedIndent(h, b, gi) ==
  IF h[b].customIndent.t = "null" THEN DefaultIndent ELSE h[b].customIndent.s

\* get indent(): this.customIndent ?? MessageBuilder.indent
IndentOf(h, b, gi) == IF h[b].customIndent.t = "null" THEN gi ELSE h[b].customIndent.s

Min(S) == CHOOSE x \in S : \A y \in S : x <= y

\* p.args = a: composer p now holds a fresh object; the holders of its old
\* object keep it
AssignArgs(h, p, a) ==
  LET others == {c \in 1..Len(h) : c # p /\ h[c].agroup = h[p].agroup}
  IN [c \in 1..Len(h) |->
        IF c = p THEN [h[c] EXCEPT !.args = a, !.agroup = p]
        ELSE IF c \in others /\ h[p].agroup = p THEN [h[c] EXCEPT !.agroup = Min(others)]
        ELSE h[c]]

\* str.split("\n").map((line) => `${int}${line}`).join("\n")
IndentLines(str, int) ==
  LET lines == SplitNL(str)
  IN JoinNL([i \in 1..Len(lines) |-> int \o lines[i]])

\* Frames a chain of nested build() calls may use before the engine throws
\* RangeError; deep enough for every acyclic heap of the model, where a
\* chain of n composers takes n composers and n - 1 parts.
StackLimit == ((MaxSize + 1) \div 2) + 1

(***************************************************************************)
(* MessageBuilder.build(withIntent, indent) of composer b on heap h, with  *)
(* int = indent ?? this.indent already taken.  Gives the string, the heap  *)
(* after the call (build assigns the args of every child it renders),      *)
(* whether the call stack overflowed and the warnings on the console.      *)
(***************************************************************************)

\* { ...p.args, ...this.args }: the parent's keys over the child's
ParentWins(parentArgs, childArgs) == Spread(childArgs, parentArgs)

\* p.args = { ...this.args, ...p.args }
MergedArgs(parentArgs, childArgs) == Spread(parentArgs, childArgs)

\* `${_stringifyValue(p)}` without the substitution
RawText(p, args) == ToText(p)

\* _buildTemplate(`${_stringifyValue(p)}`, this.args)
ScalarText(p, args) == BuildTemplate(ToText(p), args)

\* What that call of _buildTemplate warns about
ScalarWarnings(p, args) == TemplateWarnings(ToText(p), args)

\* p.build(withIntent, int): the caller's flag handed down
CallerFlag(withIntent) == withIntent

\* A nested call that lets the child take its own indentation
OwnIndent(int, childOwn) == childOwn

\* The arguments of the nested call p.build(true, int)
ChildWithIntent(withIntent) == TRUE
ChildIndent(int, childOwn) == int

\* The segment with only its first line prefixed
FirstLineOnly(str, withIntent, int) == IF withIntent THEN int \o str ELSE str

\* if (withIntent) return str.split("\n").map(...).join("\n"); return str
Segment(str, withIntent, int) == IF withIntent THEN IndentLines(str, int) ELSE str

\* parts.join("\n")
JoinParts(segs) == JoinNL(segs)

\* What build returns for its rendered parts
Joined(r) == [str |-> JoinParts(r.segs), h |-> r.h, ovf |-> r.ovf, warn |-> r.warn]

\* The segment of a part before the segments of the parts after it
Prepend(seg, warn, rest) ==
  [segs |-> <<seg>> \o rest.segs, h |-> rest.h, ovf |-> rest.ovf, warn |-> warn \o rest.warn]

RECURSIVE Render(_, _, _, _, _, _), RenderParts(_, _, _, _, _, _, _)
RECURSIVE RenderPart(_, _, _, _, _, _, _), RenderRest(_, _, _, _, _, _, _)
Render(h, b, withIntent, int, gi, fuel) ==
  IF fuel = 0 THEN [str |-> <<>>, h |-> h, ovf |-> TRUE, warn |-> <<>>]
  ELSE Joined(RenderParts(h, b, 1, withIntent, int, gi, fuel))

\* The callback of the map for part p, up to str
RenderPart(h, b, p, withIntent, int, gi, fuel) ==
  IF p.t = "mb"
  THEN Render(AssignArgs(h, p.ref, MergedArgs(h[b].args, h[p.ref].args)),
              p.ref, ChildWithIntent(withIntent),
              ChildIndent(int, IndentOf(h, p.ref, gi)), gi, fuel - 1)
  ELSE [str |-> ScalarText(p, h[b].args), h |-> h, ovf |-> FALSE,
        warn |-> ScalarWarnings(p, h[b].args)]

\* The callback of the map for part i from str on, r being what the part
\* rendered to, and the map over the parts after it
RenderRest(r, b, i, withIntent, int, gi, fuel) ==
  IF r.ovf THEN [segs |-> <<>>, h |-> r.h, ovf |-> TRUE, warn |-> r.warn]
  ELSE Prepend(Segment(r.str, withIntent, int), r.warn,
               RenderParts(r.h, b, i + 1, withIntent, int, gi, fuel))

\* this._parts.map(...) from part i on
RenderParts(h, b, i, withIntent, int, gi, fuel) ==
  IF i > Len(h[b].parts) THEN [segs |-> <<>>, h |-> h, ovf |-> FALSE, warn |-> <<>>]
  ELSE RenderRest(RenderPart(h, b, h[b].parts[i], withIntent, int, gi, fuel),
                  b, i, withIntent, int, gi, fuel)

\* b.build(withIntent, indent): int = indent ?? this.indent
Build(h, b, withIntent, indent, gi) ==
  Render(h, b, withIntent, IF indent.t = "null" THEN IndentOf(h, b, gi) ELSE indent.s,
         gi, StackLimit)

(***************************************************************************)
(* Builder callbacks.  A callback is the calls it makes on the composer it *)
(* is given: pre are the values it adds before it returns or first awaits, *)
(* post the values it adds after its first await (an async function only). *)
(* async: it is an AsyncFunction; srcAsync: its source text holds "async". *)
(***************************************************************************)
Callback(async, srcAsync, pre, post) ==
  [async |-> async, srcAsync |-> srcAsync, pre |-> pre, post |-> post]

TemplateK == <<"{", "{", "k", "}", "}">>

Callbacks ==
  << Callback(FALSE, FALSE, <<Str(TemplateK)>>, <<>>),    \* (m) => { m.add("{{k}}") }
     Callback(TRUE, TRUE, <<Str(<<"e">>)>>, <<>>),        \* async (m) => { m.add("e") }
     Callback(TRUE, TRUE, <<>>, <<Str(<<"e">>)>>),        \* async (m) => { await w; m.add("e") }
     Callback(TRUE, TRUE, <<>>, <<>>),                    \* async (m) => {}
     Callback(FALSE, TRUE, <<Str(<<"async">>)>>, <<>>),   \* (m) => { m.add("async") }
     Callback(FALSE, FALSE, <<Str(<<"e">>)>>, <<>>),      \* (m) => { m.add("e"); throw new Error("boom") }
     Callback(TRUE, TRUE, <<>>, <<Str(<<"e">>)>>),        \* async (m) => { await w; m.add("e"); throw new Error("boom") }
     Callback(TRUE, TRUE, <<Str(<<"e">>)>>, <<>>) >>      \* async (m) => { m.add("e"); throw new Error("boom") }

SyncFns == {Fn(1)}
AsyncFns == {Fn(2), Fn(3)}
\* The asynchronous callbacks given to the asynchronous methods: one that
\* waits and one that does not
AwaitedFns == {Fn(3), Fn(4)}
\* The synchronous callback whose source text holds the word async
WordyFns == {Fn(5)}

\* The callbacks that end by throwing
ThrowingFns == {Fn(6), Fn(7), Fn(8)}

\* The error a call fn(_message) throws, "" when it returns: a synchronous
\* callback throws its error, an asynchronous one returns a promise
CallbackError(fn) ==
  IF fn.t = "fn" /\ fn \in ThrowingFns /\ ~Callbacks[fn.n].async THEN "boom" ELSE ""

\* The promise an asynchronous callback returned rejects
Rejects(fn) == fn \in ThrowingFns /\ Callbacks[fn.n].async

\* value instanceof Promise: a function is never a Promise
IsPromise(v) == v.t = "promise"

\* isAsyncFunction(fn)
IsAsyncFunction(v) ==
  IsPromise(v) \/ Callbacks[v.n].async \/ Callbacks[v.n].srcAsync

\* The composer a callback was handed, after the callback has returned
Populated(child, ops) == [child EXCEPT !.parts = child.parts \o ops]

\* What an asynchronous method does after its await: kind is "add",
\* "addKv" or "push", b the composer it was called on, key, role and
\* options its arguments; "none" when no method awaits the callback
AfterAwait(kind, b, key, role, options) ==
  [kind |-> kind, b |-> b, key |-> key, role |-> role, options |-> options]

NoTail == AfterAwait("none", 0, <<>>, "", [placeholder |-> Undefined, extra |-> NoArgs])

Max(S) == CHOOSE x \in S : \A y \in S : x >= y

\* A continuation that is ready runs after those that were ready before it
NextTicket(cs) == 1 + Max({c.at : c \in cs} \cup {0})

\* A callback that was called and whose promise someone may await.  mb is
\* the composer it was given, ops what its body still adds after its
\* await, then what the method that awaits it does afterwards, at the
\* place of that continuation among the ready ones (0: the body has not
\* finished)
Pending(fn, child, then, cs) ==
  [mb |-> child, fn |-> fn, ops |-> Callbacks[fn.n].post, then |-> then,
   at |-> IF Callbacks[fn.n].post = <<>> THEN NextTicket(cs) ELSE 0]

\* The suspended rest of an asynchronous callback nobody awaits, if it has
\* one
Suspended(fn, child) ==
  IF Callbacks[fn.n].post = <<>> THEN {} ELSE {Pending(fn, child, NoTail, {})}

RECURSIVE SumParts(_, _)
SumParts(h, i) == IF i > Len(h) THEN 0 ELSE Len(h[i].parts) + SumParts(h, i + 1)

\* Composers plus parts: the size of the heap
HeapSize(h) == Len(h) + SumParts(h, 1)

\* What a call adds to the heap
Growth(v) ==
  IF v.t = "fn" THEN 2 + Len(Callbacks[v.n].pre) + Len(Callbacks[v.n].post) ELSE 1

(***************************************************************************)
(* MessageBuilder                                                          *)
(***************************************************************************)
\* new MessageBuilder(customIndent, args)
New(ci, a) ==
  /\ HeapSize(mbs) < MaxSize
  /\ mbs' = Append(mbs, NewBuilder(ci, a, Len(mbs) + 1))
  /\ result' = [NoResult EXCEPT !.op = "new"]
  /\ UNCHANGED <<globalIndent, pbArgs, turns, conts>>

\* MessageBuilder.setGlobalIndent(indent)
SetGlobalIndent(indent) ==
  /\ globalIndent' = indent
  /\ result' = [NoResult EXCEPT !.op = "setGlobalIndent"]
  /\ UNCHANGED <<mbs, pbArgs, turns, conts>>

\* The composer handed to a callback, msg(undefined, this.args), when the
\* callback has returned (or reached its first await)
CallbackChild(args, group, fn) == Populated(MsgChild(args, group), Callbacks[fn.n].pre)

\* The heap after b.add(message) has returned
AddHeap(h, b, message) ==
  IF message.t = "fn"
  THEN [Append(h, CallbackChild(h[b].args, h[b].agroup, message))
          EXCEPT ![b].parts = Append(h[b].parts, MbRef(Len(h) + 1))]
  ELSE [h EXCEPT ![b].parts = Append(h[b].parts, message)]

\* An add or addKv that appends the child before it calls the callback
PushedFirst(h, b, message) ==
  [Append(h, CallbackChild(h[b].args, h[b].agroup, message))
     EXCEPT ![b].parts = Append(h[b].parts, MbRef(Len(h) + 1))]

\* The heap after the callback given to b.add or b.addKv has thrown: the
\* composer made for it is there, and nothing was pushed
FailedHeap(h, b, message) == Append(h, CallbackChild(h[b].args, h[b].agroup, message))

\* The error b.add(message) throws, "" when it throws none
AddError(message) ==
  IF message.t = "fn" /\ IsPromise(message)
  THEN "Unsupported async message. Use addAsync instead." ELSE ""

\* b.add(message)
Add(b, message) ==
  /\ b \in MbIds
  /\ HeapSize(mbs) + Growth(message) <= MaxSize
  /\ IF AddError(message) # ""
     THEN /\ result' = [NoResult EXCEPT !.op = "add", !.arg = message, !.err = AddError(message)]
          /\ UNCHANGED <<mbs, conts>>
     ELSE IF CallbackError(message) # ""
     THEN /\ mbs' = FailedHeap(mbs, b, message)
          /\ result' = [NoResult EXCEPT !.op = "add", !.arg = message,
                                        !.err = CallbackError(message)]
          /\ UNCHANGED conts
     ELSE /\ mbs' = AddHeap(mbs, b, message)
          /\ conts' = IF message.t = "fn" THEN conts \cup Suspended(message, Len(mbs) + 1)
                      ELSE conts
          /\ result' = [NoResult EXCEPT !.op = "add", !.arg = message]
  /\ UNCHANGED <<globalIndent, pbArgs, turns>>

\* An addKv that appends `${key}: ${value}` whatever the value
AddKvInline(h, b, key, value) ==
  [h EXCEPT ![b].parts = Append(h[b].parts, Str(key \o <<": ">> \o StringOf(value)))]

\* The heap after b.addKv(key, value) has returned
AddKvHeap(h, b, key, value) ==
  IF value.t = "fn"
  THEN [Append(h, CallbackChild(h[b].args, h[b].agroup, value))
          EXCEPT ![b].parts = h[b].parts \o <<Str(key \o <<":">>), MbRef(Len(h) + 1)>>]
  ELSE IF value.t = "mb"
  THEN [h EXCEPT ![b].parts = h[b].parts \o <<Str(key \o <<":">>), value>>]
  ELSE [h EXCEPT ![b].parts = Append(h[b].parts, Str(key \o <<": ">> \o StringOf(value)))]

\* The error b.addKv(key, value) throws, "" when it throws none
AddKvError(value) ==
  IF value.t = "fn" /\ IsPromise(value)
  THEN "Unsupported async message. Use addKvAsync instead." ELSE ""

\* b.addKv(key, value)
AddKv(b, key, value) ==
  /\ b \in MbIds
  /\ HeapSize(mbs) + Growth(value) + (IF value.t \in {"fn", "mb"} THEN 1 ELSE 0) <= MaxSize
  /\ IF AddKvError(value) # ""
     THEN /\ result' = [NoResult EXCEPT !.op = "addKv", !.target = b, !.key = key,
                                        !.arg = value, !.heap = mbs,
                                        !.err = AddKvError(value)]
          /\ UNCHANGED <<mbs, conts>>
     ELSE IF CallbackError(value) # ""
     THEN /\ mbs' = FailedHeap(mbs, b, value)
          /\ result' = [NoResult EXCEPT !.op = "addKv", !.target = b, !.key = key,
                                        !.arg = value, !.heap = mbs,
                                        !.err = CallbackError(value)]
          /\ UNCHANGED conts
     ELSE /\ mbs' = AddKvHeap(mbs, b, key, value)
          /\ conts' = IF value.t = "fn" THEN conts \cup Suspended(value, Len(mbs) + 1)
                      ELSE conts
          /\ result' = [NoResult EXCEPT !.op = "addKv", !.target = b, !.key = key,
                                        !.arg = value, !.heap = mbs]
  /\ UNCHANGED <<globalIndent, pbArgs, turns>>

\* The body of an asynchronous callback resumes after its await and makes
\* the rest of its calls on the composer it was given
Resume(c) ==
  /\ c \in conts
  /\ c.at = 0
  /\ mbs' = [mbs EXCEPT ![c.mb] = Populated(mbs[c.mb], c.ops)]
  /\ conts' = (conts \ {c})
                \cup (IF c.then.kind = "none" THEN {}
                      ELSE {[c EXCEPT !.ops = <<>>, !.at = NextTicket(conts)]})
  /\ result' = [NoResult EXCEPT !.op = "resume"]
  /\ UNCHANGED <<globalIndent, pbArgs, turns>>

\* The parts the unfinished callbacks and their callers are still to add
RECURSIVE Reserved(_)
Reserved(cs) ==
  IF cs = {} THEN 0
  ELSE LET c == CHOOSE c \in cs : TRUE
       IN Len(c.ops) + (IF c.then.kind = "none" THEN 0 ELSE 1) + Reserved(cs \ {c})

\* An asynchronous method that appends the child before it awaits
EagerHeap(h, b, fn) ==
  [Append(h, CallbackChild(h[b].args, h[b].agroup, fn))
     EXCEPT ![b].parts = Append(h[b].parts, MbRef(Len(h) + 1))]

\* The heap when b.addAsync(fn) or b.addKvAsync(key, fn) has reached its
\* await: const _message = msg(undefined, this.args); await fn(_message)
AwaitHeap(h, b, fn) == Append(h, CallbackChild(h[b].args, h[b].agroup, fn))

\* b.addAsync(fn), up to its await
AddAsync(b, fn) ==
  /\ b \in MbIds
  /\ HeapSize(mbs) + Reserved(conts) + Growth(fn) <= MaxSize
  /\ mbs' = AwaitHeap(mbs, b, fn)
  /\ conts' = conts \cup {Pending(fn, Len(mbs) + 1, AfterAwait("add", b, <<>>, "", NoTail.options),
                                  conts)}
  /\ result' = [NoResult EXCEPT !.op = "addAsync", !.target = b, !.arg = fn, !.heap = mbs,
                                !.child = Len(mbs) + 1]
  /\ UNCHANGED <<globalIndent, pbArgs, turns>>

\* b.addKvAsync(key, fn), up to its await
AddKvAsync(b, key, fn) ==
  /\ b \in MbIds
  /\ HeapSize(mbs) + Reserved(conts) + Growth(fn) <= MaxSize
  /\ mbs' = AwaitHeap(mbs, b, fn)
  /\ conts' = conts \cup {Pending(fn, Len(mbs) + 1, AfterAwait("addKv", b, key, "", NoTail.options),
                                  conts)}
  /\ result' = [NoResult EXCEPT !.op = "addKvAsync", !.target = b, !.key = key, !.arg = fn,
                                !.heap = mbs, !.child = Len(mbs) + 1]
  /\ UNCHANGED <<globalIndent, pbArgs, turns>>

\* The part a method appends after its await: this._parts.push(_message)
\* of addAsync, this._parts.push(`${key}: ${_message}`) of addKvAsync
AwaitedPart(h, c, gi) ==
  IF c.then.kind = "add" THEN MbRef(c.mb)
  ELSE Str(c.then.key \o <<": ">> \o StringOf(MbRef(c.mb)))

\* The continuation of the method that runs next
IsNext(c) == c.at > 0 /\ \A d \in conts : d.at > 0 => c.at <= d.at

\* The heap after addAsync or addKvAsync has continued after its await: a
\* rejected promise makes the await throw, before the push
SettledHeap(h, c, gi) ==
  IF Rejects(c.fn) THEN h
  ELSE [h EXCEPT ![c.then.b].parts = Append(@, AwaitedPart(h, c, gi))]

\* The callback has finished: addAsync or addKvAsync continues after its
\* await, appends and resolves, or rejects
Settle(c) ==
  /\ c \in conts
  /\ c.then.kind \in {"add", "addKv"}
  /\ IsNext(c)
  /\ mbs' = SettledHeap(mbs, c, globalIndent)
  /\ conts' = conts \ {c}
  /\ result' = [NoResult EXCEPT !.op = c.then.kind \o "Async settled", !.target = c.then.b,
                                !.key = c.then.key, !.arg = c.fn, !.heap = mbs,
                                !.child = c.mb,
                                !.err = IF Rejects(c.fn) THEN "boom" ELSE ""]
  /\ UNCHANGED <<globalIndent, pbArgs, turns>>

\* b.build(withIntent, indent) returns or throws, r being what it rendered
BuildReturns(b, withIntent, r) ==
  /\ mbs' = r.h
  /\ result' = [NoResult EXCEPT !.op = "build", !.target = b, !.withIntent = withIntent,
                                !.heap = mbs,
                                !.err = IF r.ovf THEN "RangeError" ELSE "",
                                !.str = IF r.ovf THEN <<>> ELSE r.str,
                                !.warn = r.warn]

\* b.build(withIntent, indent)
BuildMB(b, withIntent, indent) ==
  /\ b \in MbIds
  /\ BuildReturns(b, withIntent, Build(mbs, b, withIntent, indent, globalIndent))
  /\ UNCHANGED <<globalIndent, pbArgs, turns, conts>>

(***************************************************************************)
(* The composer, nested: composers with and without arguments and an       *)
(* indentation of their own, nested by add.  A composer is added to one    *)
(* made before it: every acyclic heap is reached that way up to the        *)
(* numbering of its composers, which no operation reads.                   *)
(***************************************************************************)
\* "{{k}}\n\nb"
ThreeLines == Str(TemplateK \o <<NL, NL, "b">>)

\* { k: <id> }
OwnK(id) == [k \in {<<"k">>} |-> Str(NatText(id))]

InitMB ==
  /\ globalIndent = DefaultIndent
  /\ mbs = <<>>
  /\ pbArgs = NoArgs
  /\ turns = <<>>
  /\ conts = {}
  /\ result = NoResult

NextMB ==
  \/ New(Null, NoArgs)
  \/ New(Str(<<"-">>), OwnK(Len(mbs) + 1))
  \/ \E b \in MbIds, v \in {ThreeLines} \cup SyncFns : Add(b, v)
  \/ \E b \in MbIds, c \in MbIds : c > b /\ Add(b, MbRef(c))
  \/ \E b \in MbIds, w \in BOOLEAN : BuildMB(b, w, Null)

SpecMB == InitMB /\ [][NextMB]_vars

(***************************************************************************)
(* The composer, flat: one composer, made with one of three argument       *)
(* mappings, to which scalars are added.                                   *)
(***************************************************************************)
FlatArgs == {NoArgs, [k \in {<<"k">>} |-> Str(<<"v">>)], [k \in {<<"k">>} |-> Num(7)]}

\* "", "a {{k}} {{z}}", "l1\nl2", 42, true
Scalars ==
  { Str(<<>>),
    Str(<<"a ">> \o TemplateK \o <<" ", "{", "{", "z", "}", "}">>),
    Str(<<"l1", NL, "l2">>),
    Num(42),
    Bool(TRUE) }

InitFlat ==
  /\ globalIndent = DefaultIndent
  /\ \E a \in FlatArgs : mbs = <<NewBuilder(Null, a, 1)>>
  /\ pbArgs = NoArgs
  /\ turns = <<>>
  /\ conts = {}
  /\ result = NoResult

NextFlat ==
  \/ \E v \in Scalars : Add(1, v)
  \/ BuildMB(1, FALSE, Null)

SpecFlat == InitFlat /\ [][NextFlat]_vars

(***************************************************************************)
(* The composer with callbacks, synchronous and asynchronous, given to add *)
(* and addKv; the suspended body of an asynchronous callback resumes at    *)
(* any later time.                                                         *)
(***************************************************************************)
NextAsync ==
  \/ New(Null, NoArgs)
  \/ \E indent \in {DefaultIndent, <<"\t">>} : SetGlobalIndent(indent)
  \/ \E b \in MbIds, v \in {Str(<<"a">>)} \cup SyncFns \cup AsyncFns : Add(b, v)
  \/ \E b \in MbIds, v \in {Num(1)} \cup SyncFns \cup AsyncFns : AddKv(b, <<"key">>, v)
  \/ \E c \in conts : Resume(c)
  \/ \E b \in MbIds : BuildMB(b, FALSE, Null)

SpecAsync == InitMB /\ [][NextAsync]_vars

(***************************************************************************)
(* The composer whose public mapping the caller changes between builds:    *)
(* b.args[key] = value changes the object b holds, for every holder of it. *)
(***************************************************************************)
\* The object of holder group after object[key] = value, seen by composer c
ArgsAfterSet(h, c, group, key, value) ==
  IF h[c].agroup = group THEN Spread(h[c].args, [x \in {key} |-> value]) ELSE h[c].args

\* b.args[key] = value
SetArg(b, key, value) ==
  /\ b \in MbIds
  /\ mbs' = [c \in MbIds |->
               [mbs[c] EXCEPT !.args = ArgsAfterSet(mbs, c, mbs[b].agroup, key, value)]]
  /\ pbArgs' = IF mbs[b].agroup = 0 THEN Spread(pbArgs, [x \in {key} |-> value]) ELSE pbArgs
  /\ result' = [NoResult EXCEPT !.op = "setArg", !.target = b]
  /\ UNCHANGED <<globalIndent, turns, conts>>

\* pb.args[key] = value on the sequencer
PbSetArg(key, value) ==
  /\ pbArgs' = Spread(pbArgs, [x \in {key} |-> value])
  /\ mbs' = [c \in MbIds |-> [mbs[c] EXCEPT !.args = ArgsAfterSet(mbs, c, 0, key, value)]]
  /\ result' = [NoResult EXCEPT !.op = "pbSetArg"]
  /\ UNCHANGED <<globalIndent, turns, conts>>

\* The value composer b is given for k after it was made: "n<b>"
NewK(b) == Str(<<"n">> \o NatText(b))

NextArgs ==
  \/ New(Null, NoArgs)
  \/ New(Null, OwnK(Len(mbs) + 1))
  \/ \E b \in MbIds, v \in {Str(TemplateK)} \cup SyncFns : Add(b, v)
  \/ \E b \in MbIds, c \in MbIds : c > b /\ Add(b, MbRef(c))
  \/ \E b \in MbIds : SetArg(b, <<"k">>, NewK(b))
  \/ \E b \in MbIds : BuildMB(b, FALSE, Null)

SpecArgs == InitMB /\ [][NextArgs]_vars

(***************************************************************************)
(* The composer and its templates: one composer, made with one of three    *)
(* argument mappings, to which texts with placeholders are added.          *)
(***************************************************************************)
TemplateArgs ==
  { NoArgs,
    [k \in {<<"k">>} |-> Str(<<"v">>)],
    [k \in {<<"k">>, <<"z">>} |-> IF k = <<"k">> THEN Num(7) ELSE Str(<<>>)] }

Placeholder(name) == <<"{", "{">> \o name \o <<"}", "}">>

\* "{{z}} and {{k}}", "{{k}}{{z}}", "{{constructor}}"
Templates ==
  { Str(Placeholder(<<"z">>) \o <<" and ">> \o TemplateK),
    Str(TemplateK \o Placeholder(<<"z">>)),
    Str(Placeholder(<<"constructor">>)) }

InitTemplate ==
  /\ globalIndent = DefaultIndent
  /\ \E a \in TemplateArgs : mbs = <<NewBuilder(Null, a, 1)>>
  /\ pbArgs = NoArgs
  /\ turns = <<>>
  /\ conts = {}
  /\ result = NoResult

NextTemplate ==
  \/ \E t \in Templates : Add(1, t)
  \/ \E w \in BOOLEAN : BuildMB(1, w, Null)

SpecTemplate == InitTemplate /\ [][NextTemplate]_vars

(***************************************************************************)
(* The composer and its key-value pairs: composers nested by addKv, with   *)
(* a string, an object, a callback or a composer made later as the value.  *)
(***************************************************************************)
\* { x: 1, y: 2 }
DataXY == Obj(<<"{", "\"x\":1,\"y\":2", "}">>)

KvValues == {Str(<<"v">>), DataXY} \cup SyncFns

NextKv ==
  \/ New(Null, NoArgs)
  \/ New(Str(<<"-">>), OwnK(Len(mbs) + 1))
  \/ \E b \in MbIds, v \in KvValues : AddKv(b, <<"data">>, v)
  \/ \E b \in MbIds, c \in MbIds : c > b /\ AddKv(b, <<"data">>, MbRef(c))
  \/ \E b \in MbIds : BuildMB(b, FALSE, Null)

SpecKv == InitMB /\ [][NextKv]_vars

(***************************************************************************)
(* The composer and its asynchronous methods: one composer on which        *)
(* addAsync and addKvAsync are called with a callback that waits or one    *)
(* that does not, beside add and build.                                    *)
(***************************************************************************)
NextAwait ==
  \/ Add(1, Str(<<"a">>))
  \/ \E fn \in AwaitedFns : AddAsync(1, fn)
  \/ \E fn \in AwaitedFns : AddKvAsync(1, <<"data">>, fn)
  \/ \E c \in conts : Resume(c)
  \/ \E c \in conts : Settle(c)
  \/ BuildMB(1, FALSE, Null)

SpecAwait == InitFlat /\ [][NextAwait]_vars

(***************************************************************************)
(* The composer with a child that may be shared:                           *)
(*   const c = msg("{{k}}");                                               *)
(*   const p = new MessageBuilder(null, a2).add(c);                        *)
(*   const r = new MessageBuilder(null, a1) followed by adds of "{{k}}",   *)
(*             c and p                                                     *)
(* Composer 1 is r, 2 is p, 3 is c.                                        *)
(***************************************************************************)
\* The part lists r is given
SharedParts ==
  { <<MbRef(3), MbRef(2)>>, <<MbRef(2), MbRef(3)>>, <<MbRef(2)>>,
    <<Str(TemplateK), MbRef(2)>> }

SharedHeap(a1, a2, parts) ==
  << [NewBuilder(Null, a1, 1) EXCEPT !.parts = parts],
     [NewBuilder(Null, a2, 2) EXCEPT !.parts = <<MbRef(3)>>],
     [NewBuilder(Null, NoArgs, 3) EXCEPT !.parts = <<Str(TemplateK)>>] >>

InitShare ==
  /\ globalIndent = DefaultIndent
  /\ \E a1 \in {NoArgs, OwnK(1)}, a2 \in {NoArgs, OwnK(2)}, parts \in SharedParts :
       mbs = SharedHeap(a1, a2, parts)
  /\ pbArgs = NoArgs
  /\ turns = <<>>
  /\ conts = {}
  /\ result = NoResult

NextShare ==
  \/ \E b \in MbIds : SetArg(b, <<"k">>, NewK(b))
  \/ \E b \in MbIds, w \in BOOLEAN : BuildMB(b, w, Null)

SpecShare == InitShare /\ [][NextShare]_vars

(***************************************************************************)
(* The composer and its indentation: composers made with and without an    *)
(* indentation of their own, nested three deep while the default is the    *)
(* one the class was loaded with,                                          *)
(*   new MessageBuilder(i1).add("a").add(                                  *)
(*     new MessageBuilder(i2).add("b").add(                                *)
(*       new MessageBuilder(i3).add("c\nd")))                              *)
(* and MessageBuilder.setGlobalIndent called afterwards, between builds.   *)
(* Composer 1 is the outermost.                                            *)
(***************************************************************************)
FourSpaces == <<" ", " ", " ", " ">>

\* The indentations a composer is made with: none, "  " and "\t"
OwnIndents == {Null, Str(<<" ", " ">>), Str(<<"\t">>)}

NestedHeap(i1, i2, i3) ==
  << [NewBuilder(i1, NoArgs, 1) EXCEPT !.parts = <<Str(<<"a">>), MbRef(2)>>],
     [NewBuilder(i2, NoArgs, 2) EXCEPT !.parts = <<Str(<<"b">>), MbRef(3)>>],
     [NewBuilder(i3, NoArgs, 3) EXCEPT !.parts = <<Str(<<"c", NL, "d">>)>>] >>

InitIndent ==
  /\ globalIndent = DefaultIndent
  /\ \E i1 \in OwnIndents, i2 \in OwnIndents, i3 \in OwnIndents : mbs = NestedHeap(i1, i2, i3)
  /\ pbArgs = NoArgs
  /\ turns = <<>>
  /\ conts = {}
  /\ result = NoResult

NextIndent ==
  \/ \E indent \in {DefaultIndent, FourSpaces, <<>>} : SetGlobalIndent(indent)
  \/ \E b \in MbIds, w \in BOOLEAN : BuildMB(b, w, Null)

SpecIndent == InitIndent /\ [][NextIndent]_vars

(***************************************************************************)
(* The composer and the composers it may be given: add and addKv take any  *)
(* composer, one made before the receiver, the receiver itself or one that *)
(* already holds the receiver.                                             *)
(***************************************************************************)
NextCycle ==
  \/ New(Null, NoArgs)
  \/ \E b \in MbIds : Add(b, Str(<<"a">>))
  \/ \E b \in MbIds, c \in MbIds : Add(b, MbRef(c))
  \/ \E b \in MbIds, c \in MbIds : AddKv(b, <<"key">>, MbRef(c))
  \/ \E b \in MbIds : BuildMB(b, FALSE, Null)

SpecCycle == InitMB /\ [][NextCycle]_vars

(***************************************************************************)
(* PromptBuilder                                                           *)
(***************************************************************************)
Roles == {"system", "user", "assistant"}

Arr(items) == JsVal("arr", items, 0, 0)

NoExtra == [k \in {} |-> Undefined]
Options(placeholder, extra) == [placeholder |-> placeholder, extra |-> extra]
NoOptions == Options(Undefined, NoExtra)

\* { role, content, placeholder: options?.placeholder, ...options?.extra }
Turn(role, content, options) ==
  Spread([role |-> Str(<<role>>), content |-> content, placeholder |-> options.placeholder],
         options.extra)

\* _push without its check of the callback
PushUnchecked(message, role) == ""

\* The error _push(message, role, options) throws, "" when it throws none
PushError(message, role) ==
  IF message.t = "fn" /\ IsAsyncFunction(message)
  THEN "Async function cannot be used with non-async message method. Use "
       \o role \o "MessageAsync instead."
  ELSE ""

\* The content _push stores for the message
PushContent(h, message, args) ==
  IF message.t = "fn" THEN MbRef(Len(h) + 1)
  ELSE IF message.t = "mb" THEN message
  ELSE Str(BuildTemplate(StringOf(message), args))

\* this._messages after _push has pushed
Pushed(ts, role, content, options) == Append(ts, Turn(role, content, options))

\* _push(message, role, options): <role>Message(message, options)
Push(message, role, options) ==
  /\ Len(turns) < MaxTurns
  /\ IF PushError(message, role) # ""
     THEN /\ result' = [NoResult EXCEPT !.op = "push", !.role = role, !.arg = message,
                                        !.err = PushError(message, role)]
          /\ UNCHANGED <<mbs, turns>>
     ELSE IF CallbackError(message) # ""
     THEN /\ mbs' = Append(mbs, CallbackChild(pbArgs, 0, message))
          /\ result' = [NoResult EXCEPT !.op = "push", !.role = role, !.arg = message,
                                        !.options = options,
                                        !.err = CallbackError(message)]
          /\ UNCHANGED turns
     ELSE /\ mbs' = IF message.t = "fn"
                    THEN Append(mbs, CallbackChild(pbArgs, 0, message))
                    ELSE mbs
          /\ turns' = Pushed(turns, role, PushContent(mbs, message, pbArgs), options)
          /\ result' = [NoResult EXCEPT !.op = "push", !.role = role, !.arg = message,
                                        !.options = options,
                                        !.warn = IF message.t \in {"fn", "mb"} THEN <<>>
                                                 ELSE ScalarWarnings(message, pbArgs)]
  /\ UNCHANGED <<globalIndent, pbArgs, conts>>

\* A _pushAsync that pushes the turn before it awaits
EagerTurns(ts, role, child, options) == Pushed(ts, role, MbRef(child), options)

\* this._messages when _pushAsync has reached its await
AwaitTurns(ts, role, child, options) == ts

\* The continuations of _pushAsync that have not run
Pushing(cs) == {c \in cs : c.then.kind = "push"}

\* _pushAsync(message, role, options), up to its await:
\* <role>MessageAsync(message, options)
PushAsync(message, role, options) ==
  /\ Len(turns) + Cardinality(Pushing(conts)) < MaxTurns
  /\ mbs' = Append(mbs, CallbackChild(pbArgs, 0, message))
  /\ turns' = AwaitTurns(turns, role, Len(mbs) + 1, options)
  /\ conts' = conts \cup {Pending(message, Len(mbs) + 1,
                                  AfterAwait("push", 0, <<>>, role, options), conts)}
  /\ result' = [NoResult EXCEPT !.op = "pushAsync", !.role = role, !.arg = message,
                                !.child = Len(mbs) + 1, !.options = options]
  /\ UNCHANGED <<globalIndent, pbArgs>>

\* The callback has finished: _pushAsync continues after its await, pushes
\* the turn and resolves, or rejects before the push
SettlePush(c) ==
  /\ c \in Pushing(conts)
  /\ IsNext(c)
  /\ turns' = IF Rejects(c.fn) THEN turns
               ELSE Pushed(turns, c.then.role, MbRef(c.mb), c.then.options)
  /\ conts' = conts \ {c}
  /\ result' = [NoResult EXCEPT !.op = "pushAsync settled", !.role = c.then.role,
                                !.arg = c.fn, !.child = c.mb, !.options = c.then.options,
                                !.err = IF Rejects(c.fn) THEN "boom" ELSE ""]
  /\ UNCHANGED <<globalIndent, mbs, pbArgs>>

\* value ? ... : ...
Truthy(v) ==
  CASE v.t \in {"undef", "null"} -> FALSE
    [] v.t = "str" -> v.s # <<>>
    [] v.t = "num" -> v.n # 0
    [] v.t = "bool" -> v.n = 1
    [] OTHER -> TRUE

\* The filters callers pass: none,
\*   (msg) => msg.tags?.includes("important") ?? false
\* and
\*   (msg) => msg.role === "system" || (msg.tags?.includes("important") ?? false)
Filters == {"", "important", "systemOrImportant"}

\* A filter that reads the content: (msg) => msg.content === "m\nx"
ByText == "text"

TextMX == Str(<<"m", NL, "x">>)

Tagged(m, tag) ==
  /\ "tags" \in DOMAIN m
  /\ m["tags"].t = "arr"
  /\ \E i \in 1..Len(m["tags"].s) : m["tags"].s[i] = tag

Accepts(filter, m) ==
  CASE filter = "" -> TRUE
    [] filter = "important" -> Tagged(m, "important")
    [] filter = "systemOrImportant" ->
         m["role"] = Str(<<"system">>) \/ Tagged(m, "important")
    [] filter = ByText -> m["content"] = TextMX

\* (e) => filter(e), e an element of this._messages: what the filter is
\* called with for the stored turn m
FilterArg(m) == m

\* What the filter is called with by this._messages.filter(_filter), turn
\* by turn; () => true calls no filter
Seen(ts, filter) == IF filter = "" THEN <<>> ELSE [i \in 1..Len(ts) |-> FilterArg(ts[i])]

\* The turns taken without the filter
Unfiltered(ts, filter) == ts

\* this._messages.filter(_filter)
Filtered(ts, filter) == SelectSeq(ts, LAMBDA m : Accepts(filter, FilterArg(m)))

\* The whole stored turn with its content resolved
WholeRecord(m, str) == [m EXCEPT !["content"] = Str(str)]

\* The record build() returns for a turn whose content resolved to str
BuildRecord(m, str) == [role |-> m["role"], content |-> Str(str)]

\* The record the map of buildForAssistant makes for such a turn
AssistantRecord(m, str) ==
  [role |-> m["role"], content |-> Str(str), placeholder |-> m["placeholder"]]

\* The map over the filtered turns, in order: a composer's args are
\* assigned, the composer is built; other content is content.toString()
RECURSIVE Resolve(_, _, _, _, _), ResolveRest(_, _, _, _, _)

\* The callback of the map for a turn with content c
ResolveTurn(h, c, args, gi) ==
  IF c.t = "mb"
  THEN Build(AssignArgs(h, c.ref, MergedArgs(args, h[c.ref].args)), c.ref, FALSE, Null, gi)
  ELSE [str |-> ToText(c), h |-> h, ovf |-> FALSE, warn |-> <<>>]

\* The text of a turn before the texts of the turns after it
PrependText(str, warn, rest) ==
  [strs |-> <<str>> \o rest.strs, h |-> rest.h, ovf |-> rest.ovf, warn |-> warn \o rest.warn]

\* The map over the turns after turn i, r being what turn i resolved to
ResolveRest(r, ms, i, args, gi) ==
  IF r.ovf THEN [strs |-> <<>>, h |-> r.h, ovf |-> TRUE, warn |-> r.warn]
  ELSE PrependText(r.str, r.warn, Resolve(r.h, ms, i + 1, args, gi))

Resolve(h, ms, i, args, gi) ==
  IF i > Len(ms) THEN [strs |-> <<>>, h |-> h, ovf |-> FALSE, warn |-> <<>>]
  ELSE ResolveRest(ResolveTurn(h, ms[i]["content"], args, gi), ms, i, args, gi)

\* What build(filter) returns
BuildRecords(ms, strs) == [i \in 1..Len(ms) |-> BuildRecord(ms[i], strs[i])]

\* build(filter) returns or throws, ms being the filtered turns and r what
\* they resolved to
PBBuildReturns(filter, ms, r) ==
  /\ mbs' = r.h
  /\ result' = [NoResult EXCEPT !.op = "pbBuild", !.filter = filter,
                                !.err = IF r.ovf THEN "RangeError" ELSE "",
                                !.records = IF r.ovf THEN <<>> ELSE BuildRecords(ms, r.strs),
                                !.warn = r.warn, !.seen = Seen(turns, filter)]

\* build(filter)
PBBuild(filter) ==
  /\ PBBuildReturns(filter, Filtered(turns, filter),
                    Resolve(mbs, Filtered(turns, filter), 1, pbArgs, globalIndent))
  /\ UNCHANGED <<globalIndent, pbArgs, turns, conts>>

\* A loop that puts the content of every turn in the context
RECURSIVE ContentParts(_)
ContentParts(messages) ==
  IF messages = <<>> THEN <<>>
  ELSE <<Head(messages).content.s>> \o ContentParts(Tail(messages))

\* A loop that puts the placeholder of every turn that has one in the
\* context, whatever the role, and the content of the other system turns
RECURSIVE PlaceholderParts(_)
PlaceholderParts(messages) ==
  IF messages = <<>> THEN <<>>
  ELSE LET message == Head(messages)
       IN (IF Truthy(message.placeholder) THEN <<ToText(message.placeholder)>>
           ELSE IF message.role = Str(<<"system">>) THEN <<message.content.s>>
           ELSE <<>>)
          \o PlaceholderParts(Tail(messages))

\* The loop of buildForAssistant over the mapped messages
RECURSIVE ContextParts(_), ThreadMessages(_)
ContextParts(messages) ==
  IF messages = <<>> THEN <<>>
  ELSE LET message == Head(messages)
       IN (IF message.role = Str(<<"system">>) THEN <<message.content.s>>
           ELSE IF Truthy(message.placeholder) THEN <<ToText(message.placeholder)>>
           ELSE <<>>)
          \o ContextParts(Tail(messages))

ThreadMessages(messages) ==
  IF messages = <<>> THEN <<>>
  ELSE LET message == Head(messages)
       IN (IF message.role = Str(<<"system">>) THEN <<>>
           ELSE <<[role |-> message.role, content |-> message.content]>>)
          \o ThreadMessages(Tail(messages))

\* contextParts.join("\n") whatever the length
ContextJoined(contextParts) == Str(JoinNL(contextParts))

\* context: contextParts.length > 0 ? contextParts.join("\n") : undefined
Context(contextParts) ==
  IF Len(contextParts) > 0 THEN Str(JoinNL(contextParts)) ELSE Undefined

\* The messages the map of buildForAssistant makes
AssistantRecords(ms, strs) == [i \in 1..Len(ms) |-> AssistantRecord(ms[i], strs[i])]

\* What buildForAssistant returns for the mapped messages
AssistantResult(filter, messages, warn) ==
  [NoResult EXCEPT !.op = "buildForAssistant", !.filter = filter,
                   !.records = ThreadMessages(messages),
                   !.context = Context(ContextParts(messages)),
                   !.warn = warn, !.seen = Seen(turns, filter)]

\* buildForAssistant(filter) returns or throws, ms being the filtered turns
\* and r what they resolved to
AssistantReturns(filter, ms, r) ==
  /\ mbs' = r.h
  /\ result' = IF r.ovf
               THEN [NoResult EXCEPT !.op = "buildForAssistant", !.filter = filter,
                                     !.err = "RangeError", !.warn = r.warn,
                                     !.seen = Seen(turns, filter)]
               ELSE AssistantResult(filter, AssistantRecords(ms, r.strs), r.warn)

\* buildForAssistant(filter)
BuildForAssistant(filter) ==
  /\ AssistantReturns(filter, Filtered(turns, filter),
                      Resolve(mbs, Filtered(turns, filter), 1, pbArgs, globalIndent))
  /\ UNCHANGED <<globalIndent, pbArgs, turns, conts>>

(***************************************************************************)
(* The sequencer: new PromptBuilder({ k: "x" }) beside a composer          *)
(* msg("m").add("{{k}}") made before it.                                   *)
(***************************************************************************)
Important == [k \in {"tags"} |-> Arr(<<"important">>)]

\* The <role>Message(message, options) calls the callers make
PushInputs ==
  { <<"system", Str(<<"a">>), NoOptions>>,
    <<"system", Str(<<"b ">> \o TemplateK), Options(Str(<<"<p>">>), NoExtra)>>,
    <<"system", Fn(1), Options(Undefined, Important)>>,
    <<"user", Str(<<"a">>), NoOptions>>,
    <<"user", Str(<<"b ">> \o TemplateK), Options(Str(<<"<p>">>), NoExtra)>>,
    <<"user", Fn(1), Options(Str(<<>>), NoExtra)>>,
    <<"user", MbRef(1), Options(Str(<<"<q>">>), Important)>>,
    <<"assistant", Str(<<"c">>), Options(Undefined, Important)>>,
    <<"assistant", MbRef(1), Options(Str(<<"<q>">>), NoExtra)>>,
    <<"assistant", Str(<<"a">>), Options(Str(<<>>), Important)>> }

Init ==
  /\ globalIndent = DefaultIndent
  /\ mbs = <<[NewBuilder(Null, NoArgs, 1) EXCEPT !.parts = <<Str(<<"m">>), Str(TemplateK)>>]>>
  /\ pbArgs = [k \in {<<"k">>} |-> Str(<<"x">>)]
  /\ turns = <<>>
  /\ conts = {}
  /\ result = NoResult

Next ==
  \/ \E in \in PushInputs : Push(in[2], in[1], in[3])
  \/ \E role \in Roles, fn \in AsyncFns : Push(fn, role, NoOptions)
  \/ \E filter \in Filters : PBBuild(filter)
  \/ \E filter \in Filters : BuildForAssistant(filter)

Spec == Init /\ [][Next]_vars

(***************************************************************************)
(* The sequencer whose public mapping the caller changes between appends   *)
(* and builds: pb.args.k = "y" or "x".                                     *)
(***************************************************************************)
NextPbArgs ==
  \/ \E message \in {Str(<<"b ">> \o TemplateK), MbRef(1)} \cup SyncFns :
       Push(message, "user", NoOptions)
  \/ \E v \in {<<"x">>, <<"y">>} : PbSetArg(<<"k">>, Str(v))
  \/ PBBuild("")
  \/ BuildForAssistant("")

SpecPbArgs == Init /\ [][NextPbArgs]_vars

(***************************************************************************)
(* The sequencer and the placeholder option: turns of every role appended  *)
(* without a placeholder, with the empty one and with "<p>".               *)
(***************************************************************************)
Placeholders == {Undefined, Str(<<>>), Str(<<"<p>">>)}

\* { placeholder: "<p>" }
Placeheld == Options(Str(<<"<p>">>), NoExtra)

NextPlaceholder ==
  \/ \E role \in Roles, placeholder \in Placeholders :
       Push(Str(<<"a">>), role, Options(placeholder, NoExtra))
  \/ \E role \in {"system", "user"} : Push(MbRef(1), role, Placeheld)
  \/ PBBuild("")
  \/ BuildForAssistant("")

SpecPlaceholder == Init /\ [][NextPlaceholder]_vars

(***************************************************************************)
(* The sequencer and its asynchronous methods: <role>MessageAsync with a   *)
(* callback that waits or one that does not, beside <role>Message and the  *)
(* builds.                                                                 *)
(***************************************************************************)
\* The calls are made while fewer than MaxTurns turns are stored or awaited
NextPushAsync ==
  \/ /\ Len(turns) + Cardinality(Pushing(conts)) < MaxTurns
     /\ Push(Str(<<"b ">> \o TemplateK), "system", NoOptions)
  \/ \E role \in {"user", "assistant"}, fn \in AwaitedFns : PushAsync(fn, role, Placeheld)
  \/ \E c \in conts : Resume(c)
  \/ \E c \in conts : SettlePush(c)
  \/ PBBuild("")
  \/ BuildForAssistant("")

SpecPushAsync == Init /\ [][NextPushAsync]_vars

(***************************************************************************)
(* The sequencer and its builder callbacks: <role>Message with a           *)
(* synchronous callback, with one that adds the text "async" and with an   *)
(* asynchronous one.                                                       *)
(***************************************************************************)
NextCallback ==
  \/ \E role \in Roles, fn \in SyncFns \cup WordyFns \cup {Fn(2)},
        options \in {NoOptions, Placeheld} : Push(fn, role, options)
  \/ PBBuild("")
  \/ BuildForAssistant("")

SpecCallback == Init /\ [][NextCallback]_vars

(***************************************************************************)
(* The sequencer and the extra option: turns appended with metadata whose  *)
(* keys are tags, role, content or placeholder.                            *)
(***************************************************************************)
\* extra: { role: "system" }
AsSystem == [f \in {"role"} |-> Str(<<"system">>)]

\* extra: { tags: ["important"] }, { role: "system" }, { content: "z" },
\* { placeholder: "<x>" }
Extras ==
  { Important,
    AsSystem,
    [f \in {"content"} |-> Str(<<"z">>)],
    [f \in {"placeholder"} |-> Str(<<"<x>">>)] }

NextExtra ==
  \/ \E extra \in Extras : Push(Str(<<"a">>), "user", Options(Str(<<"<p>">>), extra))
  \/ Push(Str(<<"a">>), "system", Options(Str(<<"<p>">>), NoExtra))
  \/ Push(MbRef(1), "user", Options(Undefined, [f \in {"content"} |-> Str(<<"z">>)]))
  \/ PushAsync(Fn(4), "assistant", Options(Str(<<"<p>">>), AsSystem))
  \/ \E c \in conts : SettlePush(c)
  \/ BuildForAssistant("")

SpecExtra == Init /\ [][NextExtra]_vars

(***************************************************************************)
(* The sequencer and composers that share a child: the composers r, p and  *)
(* c of the shared heap are made first, then new PromptBuilder(), to which *)
(* r and p are appended as turns.                                          *)
(***************************************************************************)
InitPbShare ==
  /\ globalIndent = DefaultIndent
  /\ \E a1 \in {NoArgs, OwnK(1)}, parts \in SharedParts : mbs = SharedHeap(a1, OwnK(2), parts)
  /\ pbArgs = NoArgs
  /\ turns = <<>>
  /\ conts = {}
  /\ result = NoResult

NextPbShare ==
  \/ Push(MbRef(1), "user", NoOptions)
  \/ Push(MbRef(2), "system", Options(Undefined, Important))
  \/ Push(Str(<<"a">>), "assistant", Options(Str(<<"<p>">>), Important))
  \/ \E filter \in {"", "important"} : PBBuild(filter)
  \/ \E filter \in {"", "important"} : BuildForAssistant(filter)

SpecPbShare == InitPbShare /\ [][NextPbShare]_vars

(***************************************************************************)
(* A composer and a sequencer whose builder callbacks may fail: callbacks  *)
(* that return and callbacks that add "e" and then throw, given to the     *)
(* synchronous and to the asynchronous methods.                            *)
(***************************************************************************)
\* The heap has room for the composer and the parts of one more callback
Room(fn) == HeapSize(mbs) + Reserved(conts) + Growth(fn) <= MaxSize

NextThrow ==
  \/ \E message \in {Str(<<"a">>), Fn(1), Fn(6)} : Add(1, message)
  \/ \E fn \in {Fn(1), Fn(6)} : AddKv(1, <<"key">>, fn)
  \/ \E fn \in {Fn(4), Fn(7), Fn(8)} : AddAsync(1, fn)
  \/ \E fn \in {Fn(4), Fn(7)} : AddKvAsync(1, <<"key">>, fn)
  \/ \E c \in conts : Resume(c)
  \/ \E c \in conts : Settle(c)
  \/ \E fn \in {Fn(1), Fn(6)} : Room(fn) /\ Push(fn, "user", NoOptions)
  \/ \E fn \in {Fn(4), Fn(7), Fn(8)} : Room(fn) /\ PushAsync(fn, "assistant", NoOptions)
  \/ \E c \in conts : SettlePush(c)

SpecThrow == InitFlat /\ [][NextThrow]_vars

(***************************************************************************)
(* The sequencer and a filter that reads the content: turns whose content  *)
(* is the text "m\nx", the composer msg("m").add("{{k}}") that renders to  *)
(* it, or a composer made by a callback.                                   *)
(***************************************************************************)
\* { placeholder: "<q>", extra: { tags: ["important"] } }
Marked == Options(Str(<<"<q>">>), Important)

NextFilter ==
  \/ \E role \in {"system", "user"}, message \in {TextMX, MbRef(1)},
        options \in {NoOptions, Marked} :
       Push(message, role, options)
  \/ Push(Fn(1), "user", Marked)
  \/ \E filter \in {"important", ByText} : PBBuild(filter)
  \/ \E filter \in {"important", ByText} : BuildForAssistant(filter)

SpecFilter == Init /\ [][NextFilter]_vars

(***************************************************************************)
(* What the sequencer's outputs are expected to be, stated over the stored *)
(* turns by their position.                                                *)
(***************************************************************************)
\* The positions of the turns the filter accepts
AcceptedAt(filter) == {i \in 1..Len(turns) : Accepts(filter, turns[i])}

\* The positions of the accepted turns that are / are not system turns
SystemAt(filter) == {i \in AcceptedAt(filter) : turns[i]["role"] = Str(<<"system">>)}
ThreadAt(filter) == AcceptedAt(filter) \ SystemAt(filter)

\* How many positions of S are at or before i
Rank(S, i) == Cardinality({j \in S : j <= i})

\* The text of a stored turn: its string, or the lines of its composer (a
\* composer of scalar parts) substituted with the sequencer's mapping under
\* the composer's own
TurnText(m) ==
  IF m["content"].t = "mb"
  THEN LET c == mbs[m["content"].ref]
           a == Spread(pbArgs, c.args)
       IN JoinNL([i \in 1..Len(c.parts) |-> BuildTemplate(ToText(c.parts[i]), a)])
  ELSE m["content"].s

\* A turn carries a placeholder: any given one, or a non-empty one
HasPlaceholder(m, emptyToo) ==
  /\ m["placeholder"].t = "str"
  /\ emptyToo \/ m["placeholder"].s # <<>>

\* The context lines expected of the accepted turns from position i on
RECURSIVE ExpectedContext(_, _, _)
ExpectedContext(filter, emptyToo, i) ==
  IF i > Len(turns) THEN <<>>
  ELSE (IF i \in SystemAt(filter) THEN <<TurnText(turns[i])>>
        ELSE IF i \in ThreadAt(filter) /\ HasPlaceholder(turns[i], emptyToo)
             THEN <<turns[i]["placeholder"].s>>
        ELSE <<>>)
       \o ExpectedContext(filter, emptyToo, i + 1)

\* The records are the {role, content} of the turns at the positions of S,
\* in the order of the positions
RecordsOf(records, S) ==
  /\ Len(records) = Cardinality(S)
  /\ \A i \in S :
       records[Rank(S, i)] = [role |-> turns[i]["role"], content |-> Str(TurnText(turns[i]))]

Returned(op) == result.op = op /\ result.err = ""

\* C1: build(f) returns one record per turn f accepts, in the order the turns
\* were appended, and each record has exactly the two fields role and
\* content: the turn's role and its text, without placeholder or metadata.
C1_BuildOrder ==
  Returned("pbBuild") => RecordsOf(result.records, AcceptedAt(result.filter))

\* build("important") has returned two records from three turns, one of
\* which it skipped, and the turns carry a placeholder and metadata
C1_Witness ==
  /\ Returned("pbBuild") /\ result.filter = "important"
  /\ Len(turns) = 3 /\ Len(result.records) = 2
  /\ result.records[1] # result.records[2]
  /\ \E i \in AcceptedAt("important") : HasPlaceholder(turns[i], FALSE)

\* C2 as stated: buildForAssistant() returns the non-system turns as
\* messages, and context is the newline join of the system contents and of
\* the placeholder of every non-system turn that was given one, the empty
\* placeholder too.
C2_AsStated ==
  (Returned("buildForAssistant") /\ result.filter = ""
     /\ ExpectedContext("", TRUE, 1) # <<>>)
  => /\ RecordsOf(result.records, ThreadAt(""))
     /\ result.context = Str(JoinNL(ExpectedContext("", TRUE, 1)))

\* C2: buildForAssistant() returns the non-system turns as {role, content}
\* in append order; context is the newline join, in append order, of the
\* content of each system turn and of the placeholder of each non-system
\* turn whose placeholder is not empty, and is undefined when there is no
\* such line. No content of a non-system turn is a context line.
C2_AssistantShape ==
  (Returned("buildForAssistant") /\ result.filter = "")
  => /\ RecordsOf(result.records, ThreadAt(""))
     /\ result.context = IF ExpectedContext("", FALSE, 1) = <<>> THEN Undefined
                         ELSE Str(JoinNL(ExpectedContext("", FALSE, 1)))

\* buildForAssistant() has returned from a system turn, a user turn with a
\* placeholder and another system turn: the placeholder sits between them
C2_Witness ==
  /\ Returned("buildForAssistant") /\ result.filter = ""
  /\ Len(turns) = 3
  /\ turns[1]["role"] = Str(<<"system">>) /\ turns[3]["role"] = Str(<<"system">>)
  /\ turns[2]["role"] = Str(<<"user">>) /\ HasPlaceholder(turns[2], FALSE)
  /\ Len(result.records) = 1

\* C3 as stated: when the filter accepts no system turn, context is undefined.
C3_AsStated ==
  (Returned("buildForAssistant") /\ SystemAt(result.filter) = {})
  => result.context = Undefined

\* C3: context is undefined exactly when the filter accepts no system turn
\* and no non-system turn with a non-empty placeholder.
C3_ContextAbsent ==
  Returned("buildForAssistant")
  => (result.context = Undefined
      <=> /\ SystemAt(result.filter) = {}
          /\ \A i \in ThreadAt(result.filter) : ~HasPlaceholder(turns[i], FALSE))

\* buildForAssistant("important") has returned undefined context and two
\* messages while the turn list holds a system turn the filter rejects
C3_Witness ==
  /\ Returned("buildForAssistant") /\ result.filter = "important"
  /\ result.context = Undefined
  /\ Len(result.records) = 2
  /\ SystemAt("") # {}

\* C4: buildForAssistant(p) makes context and messages of the turns p
\* accepts and of nothing else: the content of a system turn is a context
\* line iff p accepts the turn, a non-system turn is a message iff p accepts
\* it, and the placeholder of a rejected turn is no context line.
C4_FilterIff ==
  (Returned("buildForAssistant") /\ result.filter # "")
  => /\ RecordsOf(result.records, ThreadAt(result.filter))
     /\ result.context = IF ExpectedContext(result.filter, FALSE, 1) = <<>> THEN Undefined
                         ELSE Str(JoinNL(ExpectedContext(result.filter, FALSE, 1)))

\* buildForAssistant("important") has returned where the filter accepts a
\* system turn and rejects a system turn and a non-system turn that has a
\* placeholder
C4_Witness ==
  /\ Returned("buildForAssistant") /\ result.filter = "important"
  /\ SystemAt("important") # {}
  /\ SystemAt("") \ SystemAt("important") # {}
  /\ \E i \in ThreadAt("") \ ThreadAt("important") : HasPlaceholder(turns[i], FALSE)

\* The method the error of <role>Message names
AsyncMisuse(role) ==
  CASE role = "system" ->
         "Async function cannot be used with non-async message method. Use systemMessageAsync instead."
    [] role = "user" ->
         "Async function cannot be used with non-async message method. Use userMessageAsync instead."
    [] role = "assistant" ->
         "Async function cannot be used with non-async message method. Use assistantMessageAsync instead."

\* C5: a call of systemMessage, userMessage or assistantMessage with an
\* asynchronous callback throws the error that names <role>MessageAsync, and
\* the turn list after the call is the turn list before it.
C5_AsyncMisuse ==
  [][(result'.op = "push" /\ result'.arg \in AsyncFns)
     => /\ result'.err = AsyncMisuse(result'.role)
        /\ turns' = turns]_vars

\* userMessage(async callback) has thrown on a sequencer that holds turns
C5_Witness ==
  /\ result.op = "push" /\ result.arg \in AsyncFns /\ result.role = "user"
  /\ result.err # ""
  /\ Len(turns) = 2

(***************************************************************************)
(* What the composer's outputs are expected to be.                         *)
(***************************************************************************)
\* C6 as stated: add or addKv with an asynchronous callback has thrown, and
\* no composer that a suspended callback is still to populate is a part.
C6_AsStated ==
  /\ (result.op \in {"add", "addKv"} /\ result.arg \in AsyncFns) => result.err # ""
  /\ \A c \in conts, b \in MbIds :
       \A i \in 1..Len(mbs[b].parts) : mbs[b].parts[i] # MbRef(c.mb)

\* add(async (m) => { await w; m.add("e") }) has returned without an error
\* and the child, which the suspended callback has not populated yet, is a
\* part of the composer
C6_Witness ==
  /\ result.op = "add" /\ result.arg = Fn(3) /\ result.err = ""
  /\ \E c \in conts : mbs[c.mb].parts = <<>> /\ mbs[1].parts = <<MbRef(c.mb)>>

\* The texts t[i], ..., t[n] with a newline between each two
RECURSIVE Lined(_, _)
Lined(t, i) ==
  IF i > Len(t) THEN <<>>
  ELSE IF i = Len(t) THEN t[i]
  ELSE t[i] \o <<NL>> \o Lined(t, i + 1)

\* How many newlines s holds
Newlines(s) == Cardinality({i \in 1..Len(s) : s[i] = NL})

\* C7: build() of a composer of scalar parts is the substituted text of the
\* first part, a newline, that of the second, and so on in append order: one
\* segment per part, the empty ones too, so that n parts give n - 1 newlines
\* beside those the parts hold themselves.
C7_FlatJoin ==
  (Returned("build") /\ ~result.withIntent)
  => LET parts == mbs[result.target].parts
         texts == [i \in 1..Len(parts) |-> BuildTemplate(ToText(parts[i]), mbs[result.target].args)]
         held == [i \in 1..Len(parts) |-> Newlines(ToText(parts[i]))]
         Sum[i \in 0..Len(parts)] == IF i = 0 THEN 0 ELSE held[i] + Sum[i - 1]
     IN /\ result.str = Lined(texts, 1)
        /\ Len(parts) > 0 => Newlines(result.str) = Len(parts) - 1 + Sum[Len(parts)]

\* build() has returned on a composer with a mapping for k whose parts are
\* an empty string, a number, the template and a last empty string
C7_Witness ==
  /\ Returned("build")
  /\ mbs[1].args # NoArgs
  /\ Len(mbs[1].parts) = 4
  /\ mbs[1].parts[1] = Str(<<>>) /\ mbs[1].parts[2] = Num(42)
  /\ mbs[1].parts[3].s # <<>> /\ mbs[1].parts[3].s[1] = "a "
  /\ mbs[1].parts[4] = Str(<<>>)
  /\ Len(result.str) > 4

\* n repetitions of the text int
RECURSIVE Rep(_, _)
Rep(int, n) == IF n = 0 THEN <<>> ELSE int \o Rep(int, n - 1)

\* A line of text rendered at nesting depth d
Line(d, text) == [d |-> d, text |-> text]

\* The lines of a scalar text at depth d
TextLines(d, text) == [j \in 1..Len(SplitNL(text)) |-> Line(d, SplitNL(text)[j])]

\* The lines of composer b, which is at depth d, in the order of its parts,
\* each with the depth of the composer it is a line of.  A composer without
\* parts renders no line: its parent has an empty line of its own in its
\* place.  Every child takes the mapping its parent has at that moment
\* under its own, and keeps it (h is the heap so far).
RECURSIVE Lines(_, _, _, _)
Lines(h, b, i, d) ==
  IF i > Len(h[b].parts) THEN [lines |-> <<>>, h |-> h]
  ELSE LET p == h[b].parts[i]
           r == IF p.t = "mb"
                THEN LET sub == Lines(AssignArgs(h, p.ref, Spread(h[b].args, h[p.ref].args)),
                                      p.ref, 1, d + 1)
                     IN IF sub.lines = <<>> THEN [lines |-> <<Line(d, <<>>)>>, h |-> sub.h]
                        ELSE sub
                ELSE [lines |-> TextLines(d, BuildTemplate(ToText(p), h[b].args)), h |-> h]
               rest == Lines(r.h, b, i + 1, d)
       IN [lines |-> r.lines \o rest.lines, h |-> rest.h]

\* The same lines when every child takes the effective mapping a of its
\* parent under the mapping the child holds when the build is called
RECURSIVE TreeLines(_, _, _, _, _)
TreeLines(h, b, i, d, a) ==
  IF i > Len(h[b].parts) THEN <<>>
  ELSE LET p == h[b].parts[i]
           sub == TreeLines(h, p.ref, 1, d + 1, Spread(a, h[p.ref].args))
       IN (IF p.t # "mb" THEN TextLines(d, BuildTemplate(ToText(p), a))
           ELSE IF sub = <<>> THEN <<Line(d, <<>>)>>
           ELSE sub)
          \o TreeLines(h, b, i + 1, d, a)

\* The composers below b, once for every way down to them
RECURSIVE Below(_, _, _)
Below(h, b, i) ==
  IF i > Len(h[b].parts) THEN <<>>
  ELSE (IF h[b].parts[i].t = "mb"
        THEN <<h[b].parts[i].ref>> \o Below(h, h[b].parts[i].ref, 1)
        ELSE <<>>)
       \o Below(h, b, i + 1)

\* Every composer below b is the part of one composer, once
IsTree(h, b) ==
  LET below == Below(h, b, 1)
  IN \A i, j \in 1..Len(below) : below[i] = below[j] => i = j

\* The output lines of the call that has returned
OutLines == SplitNL(result.str)

\* The output has one line for each of the lines, and is empty for none
SameCount(str, lines) ==
  IF lines = <<>> THEN str = <<>> ELSE Len(SplitNL(str)) = Len(lines)

\* s starts with the text t
StartsWith(s, t) == Len(s) >= Len(t) /\ SubSeq(s, 1, Len(t)) = t

\* build(withIntent) has returned
Built(withIntent) == Returned("build") /\ result.withIntent = withIntent

\* The indentation of the render: that of the composer build was called on
RootIndent == IndentOf(result.heap, result.target, globalIndent)

\* C8: after build() of a composer, every line of a descendant at nesting
\* depth d >= 1 is that line's text behind exactly d repetitions of the
\* indentation, at every depth and for every line of a text of several
\* lines (a descendant without parts has no line).
C8_DepthIndent ==
  Built(FALSE) =>
    LET lines == Lines(result.heap, result.target, 1, 0).lines
    IN /\ SameCount(result.str, lines)
       /\ \A j \in 1..Len(lines) :
            lines[j].d >= 1
            => OutLines[j] = Rep(RootIndent, lines[j].d) \o lines[j].text

\* build() has returned on a composer with a child and a grandchild that
\* holds a text of three lines: the lines are behind two indentations
C8_Witness ==
  /\ Returned("build") /\ ~result.withIntent /\ result.target = 1
  /\ Len(mbs) = 3
  /\ mbs[1].parts = <<MbRef(2)>> /\ mbs[2].parts = <<MbRef(3)>>
  /\ mbs[3].parts = <<ThreeLines>>
  /\ mbs[1].customIndent = Null
  /\ result.str = <<" ", " ", " ", " ", " ", " ">> \o TemplateK
                    \o <<NL, " ", " ", " ", " ", " ", " ", NL, " ", " ", " ", " ", " ", " ", "b">>

\* C9: build() gives the lines of the composer's own scalar parts without
\* indentation while the lines of nested children start with the
\* indentation under either flag; build(true) gives every line of build()
\* behind one more indentation.
C9_WithIndent ==
  LET lines == Lines(result.heap, result.target, 1, 0).lines
      plain == Build(result.heap, result.target, FALSE, Null, globalIndent).str
  IN /\ Built(FALSE) =>
          /\ SameCount(result.str, lines)
          /\ \A j \in 1..Len(lines) :
               /\ lines[j].d = 0 => OutLines[j] = lines[j].text
               /\ lines[j].d >= 1 => StartsWith(OutLines[j], RootIndent)
     /\ Built(TRUE) =>
          /\ result.str = IF result.heap[result.target].parts = <<>> THEN <<>>
                          ELSE IndentLines(plain, RootIndent)
          /\ SameCount(result.str, lines)
          /\ \A j \in 1..Len(lines) :
               lines[j].d >= 1 => StartsWith(OutLines[j], RootIndent \o RootIndent)

\* build(true) has returned on a composer that holds a text of three lines
\* and then a child with the same text
C9_Witness ==
  /\ Returned("build") /\ result.withIntent /\ result.target = 1
  /\ Len(mbs[1].parts) = 2
  /\ mbs[1].parts[1] = ThreeLines /\ mbs[1].parts[2].t = "mb"
  /\ mbs[mbs[1].parts[2].ref].parts = <<ThreeLines>>
  /\ Len(OutLines) = 6

OwnArgs(h, c) ==
  [key \in {x \in DOMAIN h[c].args : h[c].args[x] \in {OwnK(c)[<<"k">>], NewK(c)}}
     |-> h[c].args[key]]

\* The lines of composer b when every child takes the effective mapping a
\* of its parent, as it is at the build, under the keys it was given itself
RECURSIVE FreshLines(_, _, _, _, _)
FreshLines(h, b, i, d, a) ==
  IF i > Len(h[b].parts) THEN <<>>
  ELSE LET p == h[b].parts[i]
           sub == FreshLines(h, p.ref, 1, d + 1, Spread(a, OwnArgs(h, p.ref)))
       IN (IF p.t # "mb" THEN TextLines(d, BuildTemplate(ToText(p), a))
           ELSE IF sub = <<>> THEN <<Line(d, <<>>)>>
           ELSE sub)
          \o FreshLines(h, b, i + 1, d, a)

\* The values composer c was given itself
GivenTo(c) == {OwnK(c)[<<"k">>], NewK(c)}

\* Every value a composer below b holds was given to the composer itself or
\* to one of the composers above it (above b: the composers of anc)
RECURSIVE HeldFromAbove(_, _, _)
HeldFromAbove(h, b, anc) ==
  \A i \in 1..Len(h[b].parts) :
    h[b].parts[i].t = "mb" =>
      LET c == h[b].parts[i].ref
      IN /\ \A key \in DOMAIN h[c].args :
              \E j \in anc \cup {b, c} : h[c].args[key] \in GivenTo(j)
         /\ HeldFromAbove(h, c, anc \cup {b})

\* C11 as stated: the merge is made anew at every build, so a child shows
\* the value the parent's mapping has at that build for every key the child
\* was not given itself, also after an earlier build and a change of the
\* parent's value.
C11_AsStated ==
  (/\ Built(FALSE) /\ IsTree(result.heap, result.target)
   /\ HeldFromAbove(result.heap, result.target, {})) =>
    LET lines == FreshLines(result.heap, result.target, 1, 0,
                            result.heap[result.target].args)
    IN result.str =
         JoinNL([j \in 1..Len(lines) |-> Rep(RootIndent, lines[j].d) \o lines[j].text])

\* A composer made with k = 1 was built with its callback child, then given
\* k = n1, and the next build() shows the child the old value
C11_Witness ==
  /\ Built(FALSE) /\ result.target = 1
  /\ Len(mbs) = 2
  /\ mbs[1].parts = <<MbRef(2)>> /\ mbs[2].parts = <<Str(TemplateK)>>
  /\ mbs[1].args = [k \in {<<"k">>} |-> NewK(1)]
  /\ result.str = <<" ", " ", " ", "1">>

\* C12 as stated: a second build() of a composer that was not changed since
\* the first returns what the first returned, whatever the composer holds.
C12_AsStated ==
  Returned("build")
  => Build(mbs, result.target, result.withIntent, Null, globalIndent).str = result.str

\* C12: a second build() of a composer that was not changed since the first
\* returns what the first returned, when every composer below it is the
\* part of one composer, once.
C12_TreeIdempotent ==
  (Returned("build") /\ IsTree(result.heap, result.target))
  => Build(mbs, result.target, result.withIntent, Null, globalIndent).str = result.str

\* build() has returned on a composer without a mapping whose parts are the
\* child and then a composer with k = 2 that holds the same child: the child
\* was rendered with k missing, holds k = 2 afterwards, and the next build()
\* of the same composer returns another string
C12_Witness ==
  /\ Built(FALSE) /\ result.target = 1
  /\ mbs[1].args = NoArgs /\ mbs[1].parts = <<MbRef(3), MbRef(2)>>
  /\ result.heap[2].args = OwnK(2) /\ result.heap[3].args = NoArgs
  /\ mbs[3].args = OwnK(2)
  /\ StartsWith(result.str, <<" ", " ", " ">> \o TemplateK)
  /\ StartsWith(Build(mbs, 1, FALSE, Null, globalIndent).str, <<" ", " ", " ", "2">>)


(***************************************************************************)
(* A text cut in pieces: its placeholders and the atoms between them.      *)
(***************************************************************************)
RECURSIVE Pieces(_)
Pieces(t) ==
  IF t = <<>> THEN <<>>
  ELSE LET m == MatchAt(t)
       IN IF m > 0
          THEN <<[name |-> SubSeq(t, 3, m + 2), text |-> SubSeq(t, 1, m + 4)]>>
               \o Pieces(SubSeq(t, m + 5, Len(t)))
          ELSE <<[name |-> <<>>, text |-> <<t[1]>>]>> \o Pieces(Tail(t))

RECURSIVE Concat(_)
Concat(ss) == IF ss = <<>> THEN <<>> ELSE Head(ss) \o Concat(Tail(ss))

\* The text with the placeholders whose name is a key of the mapping
\* replaced by the key's value and every other piece as it is
KeysReplaced(t, args) ==
  LET ps == Pieces(t)
  IN Concat([i \in 1..Len(ps) |->
               IF ps[i].name \in DOMAIN args THEN ToText(args[ps[i].name])
               ELSE ps[i].text])

\* The names of the placeholders of the text that a set of names lacks
NamesMissing(t, names) ==
  LET ps == Pieces(t)
  IN Concat([i \in 1..Len(ps) |->
               IF ps[i].name # <<>> /\ ps[i].name \notin names THEN <<ps[i].name>>
               ELSE <<>>])

\* The texts of the parts of the composer build was called on
PartTexts == [i \in 1..Len(result.heap[result.target].parts) |->
                ToText(result.heap[result.target].parts[i])]

\* C13, as it is stated: build() of a composer of texts does not throw; in
\* what it returns every placeholder whose name is not a key of the
\* composer's mapping stands as it was written and every placeholder whose
\* name is a key is replaced by the key's value; and the warnings name the
\* placeholders that are not keys, one warning for each.
C13_AsStated ==
  Built(FALSE)
  => LET args == result.heap[result.target].args
     IN /\ result.err = ""
        /\ result.str = JoinNL([i \in 1..Len(PartTexts) |-> KeysReplaced(PartTexts[i], args)])
        /\ result.warn = Concat([i \in 1..Len(PartTexts) |->
                                   NamesMissing(PartTexts[i], DOMAIN args)])

\* C13 for the names that are no property of Object.prototype: the same,
\* when no part names such a property in a placeholder.
C13_NoInheritedName ==
  (/\ Built(FALSE)
   /\ \A i \in 1..Len(PartTexts) :
        NamesMissing(PartTexts[i], ProtoKeys) = NamesMissing(PartTexts[i], {}))
  => LET args == result.heap[result.target].args
     IN /\ result.err = ""
        /\ result.str = JoinNL([i \in 1..Len(PartTexts) |-> KeysReplaced(PartTexts[i], args)])
        /\ result.warn = Concat([i \in 1..Len(PartTexts) |->
                                   NamesMissing(PartTexts[i], DOMAIN args)])

\* build() has returned on a composer with k = "v" that holds "{{z}} and
\* {{k}}" and "{{constructor}}": z is left and warned about, k is replaced,
\* and constructor is replaced by the text of a function without a warning
C13_Witness ==
  /\ Built(FALSE)
  /\ mbs[1].args = [k \in {<<"k">>} |-> Str(<<"v">>)]
  /\ mbs[1].parts = <<Str(Placeholder(<<"z">>) \o <<" and ">> \o TemplateK),
                      Str(Placeholder(<<"constructor">>))>>
  /\ result.str = Placeholder(<<"z">>) \o <<" and ", "v", NL, "function ", "Object", "() ",
                                            "{", " [native code] ", "}">>
  /\ result.warn = <<<<"z">>>>


(***************************************************************************)
(* addKv, stated over the composer before and after the call.              *)
(***************************************************************************)
\* addKv(key, value) has returned
AddedKv == result.op = "addKv" /\ result.err = ""

\* What build() of the receiver gave before the call followed by the lines
\* the call is expected to add
WithMore(text) ==
  LET before == Build(result.heap, result.target, FALSE, Null, globalIndent).str
  IN IF result.heap[result.target].parts = <<>> THEN text ELSE before \o <<NL>> \o text

\* What build() of the receiver gives now
BuiltNow == Build(mbs, result.target, FALSE, Null, globalIndent).str

\* The composer the call nested: the value, or the one the callback filled
NestedBy(v) == IF v.t = "mb" THEN v.ref ELSE Len(result.heap) + 1

\* The lines build() of the nested composer gives when the receiver
\* renders it, with the receiver's keys under its own and the receiver's
\* indentation for what is nested in it; a composer without parts has no
\* line
NestedLines(c) ==
  LET b == result.target
      h == Build(mbs, b, FALSE, Null, globalIndent).h
  IN IF mbs[c].parts = <<>> THEN <<>>
     ELSE SplitNL(Build([h EXCEPT ![c].args = MergedArgs(mbs[b].args, mbs[c].args)], c,
                        FALSE, Str(IndentOf(mbs, b, globalIndent)), globalIndent).str)

\* The lines, each after the indentation
Indented(lines, int) == JoinNL([i \in 1..Len(lines) |-> int \o lines[i]])

\* C14, as it is stated: after addKv(key, value) with an object as the
\* value, build() gives what it gave before and the line "key: " followed
\* by the JSON text of the value.
C14_AsStated ==
  (AddedKv /\ result.arg.t = "obj")
  => BuiltNow = WithMore(result.key \o <<": ">> \o result.arg.s)

\* addKv("data", { x: 1, y: 2 }) has returned on an empty composer, and
\* build() of it gives "data: [object Object]"
C14_Witness ==
  /\ AddedKv /\ result.arg = DataXY
  /\ result.heap[result.target].parts = <<>>
  /\ BuiltNow = <<"data", ": ", "[object Object]">>

\* C15: addKv(key, value) with a string, number or boolean appends one
\* part, the text "key: value"; with a composer or a synchronous callback
\* it appends two parts, the text "key:" and the composer (for a callback
\* the new composer the callback filled); build() then gives what it gave
\* before, the line "key:" and the lines of the nested composer, each
\* prefixed with the receiver's indentation.
C15_AddKvParts ==
  AddedKv
  => LET b == result.target
         v == result.arg
         before == result.heap[b].parts
     IN /\ v.t \in {"str", "num", "bool"}
           => /\ mbs[b].parts = Append(before, Str(result.key \o <<": ">> \o ToText(v)))
              /\ BuiltNow = WithMore(BuildTemplate(result.key \o <<": ">> \o ToText(v),
                                                   mbs[b].args))
        /\ v.t \in {"mb", "fn"}
           => /\ mbs[b].parts = before \o <<Str(result.key \o <<":">>), MbRef(NestedBy(v))>>
              /\ v.t = "fn" => /\ Len(mbs) = Len(result.heap) + 1
                               /\ mbs[NestedBy(v)].parts = Callbacks[v.n].pre
              /\ BuiltNow = WithMore(result.key \o <<":", NL>>
                                     \o Indented(NestedLines(NestedBy(v)),
                                                 IndentOf(mbs, b, globalIndent)))

\* addKv("data", child) has returned on an empty composer, the child
\* holding two pairs with a string: the composer builds to "data:" and
\* the child's two lines, indented
C15_Witness ==
  /\ AddedKv /\ result.arg = MbRef(2) /\ result.target = 1
  /\ Len(mbs[1].parts) = 2
  /\ mbs[2].parts = <<Str(<<"data", ": ", "v">>), Str(<<"data", ": ", "v">>)>>
  /\ BuiltNow = <<"data", ":", NL,
                  " ", " ", " ", "data", ": ", "v", NL,
                  " ", " ", " ", "data", ": ", "v">>


(***************************************************************************)
(* The asynchronous methods of the composer, stated over the composer      *)
(* before and after the method continued.                                  *)
(***************************************************************************)
\* The parts the callback adds to the composer it is given, all of them
AllOps(fn) == Callbacks[fn.n].pre \o Callbacks[fn.n].post

\* C16, as it is stated: when addKvAsync(key, fn) has continued after its
\* await, the callback has added all its parts to the child and the
\* receiver has one part more, the text "key: " followed by what build()
\* of the child returns.
C16_AsStated ==
  result.op = "addKvAsync settled"
  => /\ mbs[result.child].parts = AllOps(result.arg)
     /\ mbs[result.target].parts
          = Append(result.heap[result.target].parts,
                   Str(result.key \o <<": ">>
                       \o Build(mbs, result.child, FALSE, Null, globalIndent).str))

\* addKvAsync("data", async (m) => { await w; m.add("e") }) has continued
\* on an empty composer: the child holds "e" and the composer the one part
\* "data: [object Object]"
C16_Witness ==
  /\ result.op = "addKvAsync settled" /\ result.arg = Fn(3)
  /\ mbs[result.child].parts = <<Str(<<"e">>)>>
  /\ mbs[result.target].parts = <<Str(<<"data", ": ", "[object Object]">>)>>

\* The child is no part of the composer
NoPartOf(h, child, b) == \A i \in 1..Len(h[b].parts) : h[b].parts[i] # MbRef(child)

\* C17: when addAsync(fn) returns its promise the receiver has the parts it
\* had; as long as the callback has not finished, or addAsync has not
\* continued, the child is no part of the receiver and what build() of the
\* receiver returns does not depend on what the child holds; when addAsync continues the
\* callback has added all its parts to the child and the child becomes the
\* last part of the receiver, behind the children of the calls that
\* continued before it.
C17_AppendOnCompletion ==
  /\ result.op = "addAsync"
     => mbs[result.target].parts = result.heap[result.target].parts
  /\ \A c \in conts :
       c.then.kind = "add"
       => /\ NoPartOf(mbs, c.mb, c.then.b)
          /\ (Built(FALSE) /\ result.target = c.then.b)
             => result.str = Build([result.heap EXCEPT ![c.mb].parts = <<Str(<<"?">>)>>],
                                   result.target, FALSE, Null, globalIndent).str
  /\ result.op = "addAsync settled"
     => /\ mbs[result.child].parts = AllOps(result.arg)
        /\ NoPartOf(result.heap, result.child, result.target)
        /\ mbs[result.target].parts
             = Append(result.heap[result.target].parts, MbRef(result.child))

\* addAsync was called on composer 1 with a callback that waits (child 2)
\* and then with one that does not (child 3); both have continued, and the
\* child of the second call stands before the child of the first
C17_Witness ==
  /\ result.op = "addAsync settled" /\ result.arg = Fn(3) /\ result.child = 2
  /\ mbs[1].parts = <<MbRef(3), MbRef(2)>>
  /\ mbs[2].parts = <<Str(<<"e">>)>>

\* build() has returned on composer 1 while the callback of its addAsync
\* is suspended: the child is no part and the text is empty
C17_Window ==
  /\ Built(FALSE) /\ result.target = 1 /\ result.str = <<>>
  /\ \E c \in conts : c.then.kind = "add" /\ c.then.b = 1 /\ c.at = 0


(***************************************************************************)
(* The asynchronous methods of the sequencer.                              *)
(***************************************************************************)
\* The positions of the turns whose content is the composer
TurnsOf(child) == {i \in 1..Len(turns) : turns[i]["content"] = MbRef(child)}

\* C18: as long as the callback of <role>MessageAsync has not finished, or
\* the method has not continued, no turn holds the child; when the method
\* continues the callback has added all its parts to the child, and the
\* turn with the role, the child as content and the options is pushed
\* behind every turn pushed until then; a turn <role>Message pushes in
\* between is the last one when it is pushed.
C18_TurnOnCompletion ==
  /\ \A c \in Pushing(conts) : TurnsOf(c.mb) = {}
  /\ result.op = "pushAsync settled"
     => /\ mbs[result.child].parts = AllOps(result.arg)
        /\ TurnsOf(result.child) = {Len(turns)}
        /\ turns[Len(turns)] = Turn(result.role, MbRef(result.child), result.options)
  /\ (result.op = "push" /\ result.err = "")
     => /\ turns # <<>>
        /\ turns[Len(turns)]["role"] = Str(<<result.role>>)
        /\ turns[Len(turns)]["content"].t = "str"

\* userMessageAsync was called with a callback that waits, then
\* systemMessage was called, then the callback finished and
\* userMessageAsync continued: the system turn stands before the user turn
C18_Witness ==
  /\ result.op = "pushAsync settled" /\ result.arg = Fn(3) /\ result.role = "user"
  /\ Len(turns) = 2
  /\ turns[1]["role"] = Str(<<"system">>) /\ turns[1]["content"] = Str(<<"b ", "x">>)
  /\ turns[2] = Turn("user", MbRef(2), Placeheld)
  /\ mbs[2].parts = <<Str(<<"e">>)>>


(***************************************************************************)
(* The sequencer's mapping, changed between appends and builds.  The       *)
(* composers of these turns are made without keys of their own.            *)
(***************************************************************************)
\* The parts of the turn's composer substituted with the mapping
LiveText(m, args) ==
  LET c == mbs[m["content"].ref]
  IN JoinNL([i \in 1..Len(c.parts) |-> BuildTemplate(ToText(c.parts[i]), args)])

\* <role>Message(message) has returned for a scalar: the content of the
\* turn is the message substituted with the sequencer's mapping
AppendedSubstituted ==
  (Returned("push") /\ result.arg.t = "str")
  => turns[Len(turns)]["content"] = Str(BuildTemplate(result.arg.s, pbArgs))

\* build() gives the stored text of every turn appended with a scalar
ScalarFrozen ==
  (Returned("pbBuild") /\ result.filter = "")
  => /\ Len(result.records) = Len(turns)
     /\ \A i \in 1..Len(turns) :
          turns[i]["content"].t = "str" => result.records[i].content = turns[i]["content"]

\* C19, as it is stated: a scalar is substituted when it is appended, with
\* the sequencer's mapping of that moment, and build() returns that text
\* whatever the mapping has become; for a turn whose content is a composer
\* build() returns the composer's parts substituted with the sequencer's
\* mapping as it is when build() is called.
C19_AsStated ==
  /\ AppendedSubstituted
  /\ ScalarFrozen
  /\ (Returned("pbBuild") /\ result.filter = "")
     => \A i \in 1..Len(turns) :
          turns[i]["content"].t = "mb"
          => result.records[i].content = Str(LiveText(turns[i], pbArgs))

\* C19 for the scalars: the first two parts of the statement.
C19_ScalarAtAppend == AppendedSubstituted /\ ScalarFrozen

\* build() has returned for a turn appended with "b {{k}}" and a turn
\* appended with the composer of "m" and "{{k}}", after a build with k = "x"
\* and pb.args.k = "y": the first turn still reads "b x", and so does the
\* second read "m", "x"
C19_Witness ==
  /\ Returned("pbBuild") /\ pbArgs[<<"k">>] = Str(<<"y">>)
  /\ Len(turns) = 2
  /\ turns[1]["content"] = Str(<<"b ", "x">>) /\ turns[2]["content"] = MbRef(1)
  /\ result.records[1].content = Str(<<"b ", "x">>)
  /\ result.records[2].content = Str(<<"m", NL, "x">>)


(***************************************************************************)
(* The placeholder option, turn by turn.                                   *)
(***************************************************************************)
\* The line a turn is expected to put in the context when every role shows
\* its placeholder: the placeholder when one was given, else the content of
\* a system turn, else none
PlaceholderLine(m) ==
  IF HasPlaceholder(m, TRUE) THEN <<m["placeholder"].s>>
  ELSE IF m["role"] = Str(<<"system">>) THEN <<TurnText(m)>>
  ELSE <<>>

\* The line a turn puts in the context: its content for a system turn, its
\* placeholder for another turn that was given a non-empty one, else none
ContextLine(m) ==
  IF m["role"] = Str(<<"system">>) THEN <<TurnText(m)>>
  ELSE IF HasPlaceholder(m, FALSE) THEN <<m["placeholder"].s>>
  ELSE <<>>

\* C20, as it is stated: whatever the role, a turn appended with a
\* placeholder puts the placeholder in the context of buildForAssistant()
\* and not its content.
C20_AsStated ==
  (Returned("buildForAssistant") /\ result.filter = "")
  => LET parts == Concat([i \in 1..Len(turns) |-> PlaceholderLine(turns[i])])
     IN result.context = IF parts = <<>> THEN Undefined ELSE Str(JoinNL(parts))

\* C20: a user or assistant turn appended with a non-empty placeholder puts
\* the placeholder in the context of buildForAssistant() and never its
\* content; a system turn puts its content there whether or not it was
\* given a placeholder; a turn given the empty placeholder is treated as a
\* turn given none.
C20_PlaceholderByRole ==
  (Returned("buildForAssistant") /\ result.filter = "")
  => LET parts == Concat([i \in 1..Len(turns) |-> ContextLine(turns[i])])
     IN result.context = IF parts = <<>> THEN Undefined ELSE Str(JoinNL(parts))

\* buildForAssistant() has returned from a system turn and a user turn,
\* both appended with the content "a" and the placeholder "<p>": the context
\* is the content of the first and the placeholder of the second
C20_Witness ==
  /\ Returned("buildForAssistant") /\ result.filter = ""
  /\ turns = <<Turn("system", Str(<<"a">>), Placeheld), Turn("user", Str(<<"a">>), Placeheld)>>
  /\ result.context = Str(<<"a", NL, "<p>">>)

(***************************************************************************)
(* What the filter is given.                                               *)
(***************************************************************************)
\* A build that was given a filter has returned
Sifted == result.op \in {"pbBuild", "buildForAssistant"} /\ result.err = "" /\ result.filter # ""

\* C21 as stated: the filter given to build or buildForAssistant is called,
\* for every turn, with the turn's role, with the turn's rendered text as
\* content, also when the content is a composer, and with every other field
\* of the turn.
C21_AsStated ==
  Sifted =>
    /\ Len(result.seen) = Len(turns)
    /\ \A i \in 1..Len(turns) :
         /\ result.seen[i]["role"] = turns[i]["role"]
         /\ result.seen[i]["content"] = Str(TurnText(turns[i]))
         /\ \A f \in DOMAIN turns[i] \ {"role", "content"} :
              f \in DOMAIN result.seen[i] /\ result.seen[i][f] = turns[i][f]

\* build((msg) => msg.content === "m\nx") has returned no record from a
\* sequencer whose only turn is the composer that renders to "m\nx": the
\* filter was called with the composer
C21_Witness ==
  /\ Returned("pbBuild") /\ result.filter = ByText
  /\ Len(turns) = 1 /\ turns[1]["content"] = MbRef(1)
  /\ TurnText(turns[1]) = TextMX.s
  /\ result.seen[1]["content"] = MbRef(1)
  /\ result.records = <<>>

\* The role and the other fields of every turn reach the filter as they are
\* stored, and a content that is a string reaches it as that string
C21_StoredFields ==
  Sifted =>
    /\ Len(result.seen) = Len(turns)
    /\ \A i \in 1..Len(turns) :
         /\ \A f \in DOMAIN turns[i] \ {"content"} :
              f \in DOMAIN result.seen[i] /\ result.seen[i][f] = turns[i][f]
         /\ turns[i]["content"].t = "str" => result.seen[i]["content"] = turns[i]["content"]

(***************************************************************************)
(* What a build of the sequencer leaves behind.                            *)
(***************************************************************************)
\* The composers that are the content of a turn
ContentComposers(ts) == {ts[i]["content"].ref : i \in {j \in 1..Len(ts) : ts[j]["content"].t = "mb"}}

\* C22 as stated: a call of build or buildForAssistant leaves the stored
\* turns as they were, the argument mapping of every composer that is the
\* content of a turn included.
C22_AsStated ==
  [][result'.op \in {"pbBuild", "buildForAssistant"}
     => /\ turns' = turns
        /\ \A c \in ContentComposers(turns) : mbs'[c].args = mbs[c].args]_vars

\* build() has returned on a sequencer whose first turn is the composer
\* msg("m").add("{{k}}"), made without a mapping: the composer now holds the
\* sequencer's k as a key of its own
C22_Witness ==
  /\ Returned("pbBuild")
  /\ Len(turns) >= 1 /\ turns[1]["content"] = MbRef(1)
  /\ DOMAIN mbs[1].args = {<<"k">>} /\ mbs[1].agroup = 1

\* No build removes, reorders or replaces a turn of the list
C22_TurnsKept ==
  [][result'.op \in {"pbBuild", "buildForAssistant"} => turns' = turns]_vars

(***************************************************************************)
(* What a render leaves in the children, and what a second parent of a     *)
(* child sees of it.                                                       *)
(***************************************************************************)
\* The composers that are parts of composer b itself
ChildrenOf(h, b) ==
  {h[b].parts[i].ref : i \in {j \in 1..Len(h[b].parts) : h[b].parts[j].t = "mb"}}

\* The first part of b is the composer c, which holds the template {{k}}
\* alone and a value for k
LeadsWith(h, b, c) ==
  /\ h[b].parts # <<>> /\ h[b].parts[1] = MbRef(c)
  /\ h[c].parts = <<Str(TemplateK)>>
  /\ <<"k">> \in DOMAIN h[c].args

\* C23: a render stores in every child the merge of the parent's mapping
\* under the child's own: after build of a composer, each of its children
\* holds every key of the composer and still holds its own keys with their
\* values; the keys a child took from an earlier parent are its own from
\* then on, so the build of another parent of the child reads the template
\* of the child with the value the child holds, whatever the value of that
\* parent for the key.
C23_SharedChildKeeps ==
  Returned("build") =>
    \A c \in ChildrenOf(result.heap, result.target) :
      /\ \A key \in DOMAIN result.heap[c].args :
           key \in DOMAIN mbs[c].args /\ mbs[c].args[key] = result.heap[c].args[key]
      /\ DOMAIN result.heap[result.target].args \subseteq DOMAIN mbs[c].args
      /\ LeadsWith(result.heap, result.target, c)
         => OutLines[1] = Rep(RootIndent, IF result.withIntent THEN 2 ELSE 1)
                            \o ToText(result.heap[c].args[<<"k">>])

\* build() has returned on r, which holds k = 1, the child c and then p; c
\* was made without a mapping and held k = 2, the value of its other parent
\* p, when the build was called: the line of c under r reads 2
C23_Witness ==
  /\ Returned("build") /\ ~result.withIntent /\ result.target = 1
  /\ result.heap[1].args = OwnK(1)
  /\ result.heap[1].parts = <<MbRef(3), MbRef(2)>>
  /\ result.heap[2].args = OwnK(2) /\ result.heap[2].parts = <<MbRef(3)>>
  /\ result.heap[3].args = OwnK(2)
  /\ OutLines[1] = DefaultIndent \o <<"2">>

(***************************************************************************)
(* The indentation of a render.                                            *)
(***************************************************************************)
\* How many indentations deeper every line is under build(true)
Shift == IF result.withIntent THEN 1 ELSE 0

\* The composers below the one build was called on that were made with an
\* indentation of their own
Overriding ==
  {c \in {Below(result.heap, result.target, 1)[i] :
            i \in 1..Len(Below(result.heap, result.target, 1))} :
     result.heap[c].customIndent # Null}

\* C24: one indentation serves the whole render, that of the composer
\* build() was called on (its own if it was made with one, else the
\* default): every line of every descendant, at depth d, is the line's text
\* behind d repetitions of it, whatever indentation the descendant was made
\* with.
C24_RootIndent ==
  Returned("build") =>
    LET lines == Lines(result.heap, result.target, 1, 0).lines
    IN /\ SameCount(result.str, lines)
       /\ \A j \in 1..Len(lines) :
            OutLines[j] = Rep(RootIndent, lines[j].d + Shift) \o lines[j].text

\* build() has returned on the outermost composer, made with "  ", whose
\* child and grandchild were made with "\t": their lines are behind "  "
\* and "    "
C24_Witness ==
  /\ Returned("build") /\ ~result.withIntent /\ result.target = 1
  /\ mbs[1].customIndent = Str(<<" ", " ">>)
  /\ Overriding = {2, 3}
  /\ mbs[2].customIndent = Str(<<"\t">>) /\ mbs[3].customIndent = Str(<<"\t">>)
  /\ OutLines = << <<"a">>, <<" ", " ", "b">>, <<" ", " ", " ", " ", "c">>,
                   <<" ", " ", " ", " ", "d">> >>

\* C25: the default indentation is read when build() is called: the lines
\* of a composer made without an indentation of its own are behind the
\* default as it is at that call, those of a composer made with one are
\* behind its own, whatever the default is then.
C25_DefaultAtRender ==
  Returned("build") =>
    LET lines == Lines(result.heap, result.target, 1, 0).lines
        own == result.heap[result.target].customIndent
    IN /\ SameCount(result.str, lines)
       /\ \A j \in 1..Len(lines) :
            /\ own = Null
               => OutLines[j] = Rep(globalIndent, lines[j].d + Shift) \o lines[j].text
            /\ own # Null
               => OutLines[j] = Rep(own.s, lines[j].d + Shift) \o lines[j].text

\* build() has returned on the outermost composer, made without an
\* indentation of its own while the default was "   ": the default is now
\* "    " and the lines of the child are behind it
C25_Witness ==
  /\ Returned("build") /\ ~result.withIntent /\ result.target = 1
  /\ mbs[1].customIndent = Null
  /\ globalIndent = FourSpaces
  /\ OutLines[2] = FourSpaces \o <<"b">>
  /\ OutLines[3] = FourSpaces \o FourSpaces \o <<"c">>

(***************************************************************************)
(* Which callbacks <role>Message takes.                                    *)
(***************************************************************************)
\* C26 as stated: <role>Message with a builder callback throws exactly when
\* the callback is asynchronous; a synchronous callback is called once with
\* a composer made for it, and that composer is appended as the last turn.
C26_AsStated ==
  (result.op = "push" /\ result.arg.t = "fn") =>
    /\ result.err # "" <=> Callbacks[result.arg.n].async
    /\ ~Callbacks[result.arg.n].async
       => /\ turns # <<>>
          /\ turns[Len(turns)]["content"] = MbRef(Len(mbs))
          /\ mbs[Len(mbs)].parts = Callbacks[result.arg.n].pre

\* userMessage((m) => { m.add("async") }) has thrown the error of the
\* asynchronous callbacks and no turn was appended
C26_Witness ==
  /\ result.op = "push" /\ result.arg \in WordyFns /\ result.role = "user"
  /\ ~Callbacks[result.arg.n].async
  /\ result.err = AsyncMisuse("user")
  /\ turns = <<>>

\* Every asynchronous callback is refused, and a synchronous callback
\* whose source text does not hold the word async is taken
C26_PlainCallbacks ==
  (result.op = "push" /\ result.arg.t = "fn") =>
    /\ Callbacks[result.arg.n].async => result.err # ""
    /\ (~Callbacks[result.arg.n].async /\ ~Callbacks[result.arg.n].srcAsync)
       => /\ result.err = ""
          /\ turns[Len(turns)]["content"] = MbRef(Len(mbs))
          /\ mbs[Len(mbs)].parts = Callbacks[result.arg.n].pre

(***************************************************************************)
(* What the builds report of a turn that was appended with metadata.       *)
(***************************************************************************)
\* <role>Message or <role>MessageAsync has appended a turn
Appended == result.op \in {"push", "pushAsync settled"} /\ result.err = ""

\* The text of what the method was given: the substituted text of a scalar,
\* the render, as a turn, of a composer or of the composer the callback was
\* handed
GivenText ==
  CASE result.arg.t = "mb" -> ResolveTurn(mbs, result.arg, pbArgs, globalIndent).str
    [] result.arg.t = "fn" ->
         ResolveTurn(mbs, MbRef(IF result.op = "push" THEN Len(mbs) ELSE result.child),
                     pbArgs, globalIndent).str
    [] OTHER -> BuildTemplate(StringOf(result.arg), pbArgs)

\* What build() reports now of the turn appended last
LastRecord ==
  LET m == turns[Len(turns)]
  IN BuildRecord(m, ResolveTurn(mbs, m["content"], pbArgs, globalIndent).str)

\* The context lines buildForAssistant gives now for the turn appended last
LastContext ==
  LET m == turns[Len(turns)]
  IN ContextParts(<<AssistantRecord(m, ResolveTurn(mbs, m["content"], pbArgs, globalIndent).str)>>)

\* C27 as stated: whatever keys options.extra holds, the turn a
\* <role>Message or <role>MessageAsync call has appended is reported by
\* build() with the role of the method and the content it was given, and
\* buildForAssistant shows for it the placeholder given in
\* options.placeholder (the content for a system turn).
C27_AsStated ==
  Appended =>
    /\ LastRecord = [role |-> Str(<<result.role>>), content |-> Str(GivenText)]
    /\ LastContext = IF result.role = "system" THEN <<GivenText>>
                     ELSE IF Truthy(result.options.placeholder)
                          THEN <<ToText(result.options.placeholder)>>
                     ELSE <<>>

\* userMessage("a", { placeholder: "<p>", extra: { role: "system" } }) has
\* returned: the stored turn is a system turn
C27_Witness ==
  /\ Appended /\ result.op = "push" /\ result.role = "user"
  /\ result.arg = Str(<<"a">>)
  /\ result.options = Options(Str(<<"<p>">>), AsSystem)
  /\ LastRecord = [role |-> Str(<<"system">>), content |-> Str(<<"a">>)]
  /\ LastContext = << <<"a">> >>

\* With metadata that holds none of the keys role, content and placeholder
\* the turn is reported as it was given
C27_OtherKeys ==
  (Appended /\ DOMAIN result.options.extra \cap {"role", "content", "placeholder"} = {})
  => /\ LastRecord = [role |-> Str(<<result.role>>), content |-> Str(GivenText)]
     /\ LastContext = IF result.role = "system" THEN <<GivenText>>
                      ELSE IF Truthy(result.options.placeholder)
                           THEN <<ToText(result.options.placeholder)>>
                      ELSE <<>>

(***************************************************************************)
(* Whether a render comes to an end.                                       *)
(***************************************************************************)
\* Composer c is reached from composer b by going down parts, one or more
\* times, in at most n steps
RECURSIVE Reaches(_, _, _, _)
Reaches(h, b, c, n) ==
  /\ n > 0
  /\ \E d \in ChildrenOf(h, b) : d = c \/ Reaches(h, d, c, n - 1)

\* C28 as stated: build() of every composer that add and addKv can make
\* comes to an end and returns its string, also when the composer is, or is
\* below, one of its own parts.
C28_AsStated == result.op = "build" => result.err = ""

\* build() has been called on a composer that was added to itself: the
\* render went down into the composer until the call stack was used up
C28_Witness ==
  /\ result.op = "build" /\ result.target = 1
  /\ result.err = "RangeError"
  /\ result.heap[1].parts = <<MbRef(1)>>

\* The renders that use up the call stack are those of a composer that
\* reaches a composer which is below itself
C28_CyclesOnly ==
  result.op = "build"
  => (result.err = "RangeError"
      <=> \E c \in 1..Len(result.heap) :
            /\ c = result.target \/ Reaches(result.heap, result.target, c, Len(result.heap))
            /\ Reaches(result.heap, c, c, Len(result.heap)))

(***************************************************************************)
(* The two output shapes of the sequencer, side by side.                   *)
(***************************************************************************)
\* What build(filter) returns when the composers are as in heap h
BuildOut(h, filter) ==
  BuildRecords(Filtered(turns, filter),
               Resolve(h, Filtered(turns, filter), 1, pbArgs, globalIndent).strs)

\* What buildForAssistant(filter) returns when the composers are as in heap h
AssistantOut(h, filter) ==
  LET messages == AssistantRecords(Filtered(turns, filter),
                                   Resolve(h, Filtered(turns, filter), 1, pbArgs,
                                           globalIndent).strs)
  IN [messages |-> ThreadMessages(messages), context |-> Context(ContextParts(messages))]

\* The records that are not of a system turn
WithoutSystem(records) == SelectSeq(records, LAMBDA m : m.role # Str(<<"system">>))

\* In one state of the sequencer the messages of buildForAssistant(f) are
\* the records of build(f) without the system turns, in the same order
SameRecords ==
  \A filter \in {"", "important"} :
    AssistantOut(mbs, filter).messages = WithoutSystem(BuildOut(mbs, filter))

\* C29 as stated: for every state of the sequencer and every filter f, the
\* messages of buildForAssistant(f) are the records of build(f) without the
\* system turns, and a call of build or buildForAssistant leaves what the
\* other returns as it was before the call.
C29_AsStated ==
  /\ []SameRecords
  /\ [][/\ result'.op = "pbBuild"
           => \A filter \in {"", "important"} :
                AssistantOut(mbs', filter) = AssistantOut(mbs, filter)
        /\ result'.op = "buildForAssistant"
           => \A filter \in {"", "important"} :
                BuildOut(mbs', filter) = BuildOut(mbs, filter)]_vars

\* build() has returned on a sequencer whose turn is r, which holds c and
\* then p; c, made without a mapping, now holds k = 2 of p, and
\* buildForAssistant() gives "2" where build() gave the template
C29_Witness ==
  /\ Returned("pbBuild") /\ result.filter = ""
  /\ Len(turns) = 1 /\ turns[1]["content"] = MbRef(1)
  /\ mbs[1].parts = <<MbRef(3), MbRef(2)>>
  /\ SplitNL(result.records[1].content.s)[1] = DefaultIndent \o TemplateK
  /\ SplitNL(AssistantOut(mbs, "").messages[1].content.s)[1] = DefaultIndent \o <<"2">>

\* The two shapes agree in every state
C29_SameRecords == SameRecords

(***************************************************************************)
(* What a failed callback leaves behind.                                   *)
(***************************************************************************)
\* C30: when the callback given to add, addKv or <role>Message throws, or
\* the promise of the callback given to addAsync, addKvAsync or
\* <role>MessageAsync rejects, the call fails and appends nothing: every
\* composer has the parts it had before, the "key:" line of addKv is not
\* there either, and the sequencer has the turns it had before.
C30_NothingAppended ==
  [][result'.err = "boom"
     => /\ turns' = turns
        /\ \A b \in MbIds : mbs'[b].parts = mbs[b].parts]_vars

\* addKv("key", (m) => { m.add("e"); throw new Error("boom") }) has thrown
\* on a composer that holds a part: the callback had added "e" to the
\* composer made for it, and the receiver holds what it held
C30_Witness ==
  /\ result.op = "addKv" /\ result.arg = Fn(6) /\ result.err = "boom"
  /\ result.heap[1].parts # <<>>
  /\ mbs[1].parts = result.heap[1].parts
  /\ Len(mbs) = Len(result.heap) + 1
  /\ mbs[Len(mbs)].parts = <<Str(<<"e">>)>>

\* addAsync and userMessageAsync have rejected, the one after its callback
\* had waited and added "e"
C30_Rejected ==
  /\ result.op \in {"addAsync settled", "pushAsync settled"} /\ result.err = "boom"
  /\ result.arg = Fn(7)
  /\ mbs[result.child].parts = <<Str(<<"e">>)>>

====
